---------------------------- MODULE Spec2Model ----------------------------
(***************************************************************************)
(* Model of the SHA disbursement data module (src/functions.py): the name  *)
(* canonicalizer, the record standardizer, the junk row filter, the        *)
(* registry loader and the entity resolver.                                *)
(*                                                                         *)
(* A Python str is a sequence of characters; a character is a one-letter   *)
(* string, and a non-ASCII character is named by its code point           *)
(* ("U+00E9").  A table cell is a tagged record: Str(s), a number, or one   *)
(* of the missing markers NaN and NoneV.                                   *)
(***************************************************************************)
EXTENDS Integers, Sequences, FiniteSets, TLC

VARIABLES
    op,      \* the operation that produced the current state
    arg,     \* _clean_name: the argument of the call
    ret,     \* _clean_name: the value returned
    tbl,     \* the table the pipeline works on, or the exception raised
    prev,    \* the table handed to the operation that produced tbl
    csv,             \* the registry file, or Missing
    registry,        \* the registry load_registry returned
    use_fuzzy,       \* enrich_with_registry: the argument fuzzy
    cutoff,          \* enrich_with_registry: the argument score_cutoff
    HAVE_RAPIDFUZZ,  \* whether the import of rapidfuzz succeeded
    RAW,             \* app.py: the dataset loaded at start-up
    filtered_json,   \* app.py: the data of the store "filtered-json"
    views            \* app.py: the outputs of update_views

vars == <<op, arg, ret, tbl, prev, csv, registry, use_fuzzy, cutoff, HAVE_RAPIDFUZZ, RAW, filtered_json, views>>

---------------------------------------------------------------------------
(* Bounds *)

\* longest name, in pieces, handed to _clean_name
MaxPieces == 3
\* most rows of a raw table
MaxRows == 2
\* most entities of a registry file
MaxEntities == 2
\* most rows of a cleaned dataset
MaxRecords == 3
\* most rows of the dataset the dashboard loads
MaxRaw == 2

\* score_cutoff: int = 92
DefaultCutoff == 92

---------------------------------------------------------------------------
(* Values *)

NoneV == [t |-> "none"]
NaN == [t |-> "nan"]
Str(s) == [t |-> "str", s |-> s]
IsStr(v) == v.t = "str"

RECURSIVE Concat(_)
Concat(ss) == IF ss = <<>> THEN <<>> ELSE Head(ss) \o Concat(Tail(ss))

\* str(x) of Python for the values a cell can hold
PyStr(v) ==
    CASE v.t = "str" -> v.s
      [] v.t = "nan" -> <<"n", "a", "n">>
      [] v.t = "none" -> <<"N", "o", "n", "e">>

---------------------------------------------------------------------------
(* Characters *)

LowerSeq == <<"a", "b", "c", "d", "e", "f", "g", "h", "i", "j", "k", "l", "m",
              "n", "o", "p", "q", "r", "s", "t", "u", "v", "w", "x", "y", "z">>
UpperSeq == <<"A", "B", "C", "D", "E", "F", "G", "H", "I", "J", "K", "L", "M",
              "N", "O", "P", "Q", "R", "S", "T", "U", "V", "W", "X", "Y", "Z">>
LowerSet == {LowerSeq[i] : i \in DOMAIN LowerSeq}
UpperSet == {UpperSeq[i] : i \in DOMAIN UpperSeq}
DigitSet == {"0", "1", "2", "3", "4", "5", "6", "7", "8", "9"}

\* \s of a Python str pattern: ASCII blanks and the Unicode spaces (no-break space)
IsSpace(c) == c \in {" ", "\t", "\n", "\r", "U+00A0"}
\* \w of a Python str pattern, over the characters of the model
WordChars == LowerSet \cup UpperSet \cup DigitSet \cup {"_", "U+00E9", "U+00DF"}
IsWord(c) == c \in WordChars
\* [a-z0-9]
AlnumChars == LowerSet \cup DigitSet

\* one character of str.lower() on an ASCII string
LowerChar(c) ==
    IF c \in UpperSet THEN LowerSeq[CHOOSE i \in DOMAIN UpperSeq : UpperSeq[i] = c]
    ELSE c

\* unicodedata.normalize("NFKD", c).encode("ascii", "ignore").decode("ascii")
AsciiFold(c) ==
    CASE c = "U+00E9" -> <<"e">>          \* e acute: e + combining accent
      [] c = "U+00DF" -> <<>>             \* sharp s: no decomposition, dropped
      [] c = "U+2019" -> <<>>             \* right single quote: dropped
      [] c = "U+00A0" -> <<" ">>          \* no-break space: compatibility space
      [] OTHER -> <<c>>

\* the NFKD/ASCII folding and str.lower() of a whole string
FoldStr(s) == Concat([i \in DOMAIN s |-> AsciiFold(s[i])])
LowerStr(s) == [i \in DOMAIN s |-> LowerChar(s[i])]

---------------------------------------------------------------------------
(* Regular expressions of the module, at the character level *)

\* a slip: the runs are deleted instead of replaced by a space
SubNonAlnumDelete(s) == SelectSeq(s, LAMBDA c : c \in AlnumChars)

\* re.sub(r"[^a-z0-9]+", " ", s)
RECURSIVE SubNonAlnumFrom(_, _, _)
SubNonAlnumFrom(s, i, inRun) ==
    IF i > Len(s) THEN <<>>
    ELSE IF s[i] \in AlnumChars
         THEN <<s[i]>> \o SubNonAlnumFrom(s, i + 1, FALSE)
         ELSE IF inRun THEN SubNonAlnumFrom(s, i + 1, TRUE)
              ELSE <<" ">> \o SubNonAlnumFrom(s, i + 1, TRUE)
SubNonAlnum(s) == SubNonAlnumFrom(s, 1, FALSE)

STOPWORDS == <<
    <<"h", "o", "s", "p", "i", "t", "a", "l">>,
    <<"d", "i", "s", "p", "e", "n", "s", "a", "r", "y">>,
    <<"c", "l", "i", "n", "i", "c">>,
    <<"m", "e", "d", "i", "c", "a", "l">>,
    <<"c", "e", "n", "t", "r", "e">>,
    <<"c", "e", "n", "t", "e", "r">>,
    <<"h", "e", "a", "l", "t", "h">>,
    <<"f", "a", "c", "i", "l", "i", "t", "y">> >>

\* \b before position i (i = Len(s) + 1: at the end)
WordAt(s, i) == i >= 1 /\ i <= Len(s) /\ IsWord(s[i])
Boundary(s, i) == WordAt(s, i - 1) # WordAt(s, i)

MatchAt(s, i, w) == i + Len(w) - 1 <= Len(s) /\ SubSeq(s, i, i + Len(w) - 1) = w

\* the length matched by \b(hospital|...|facility)\b at position i, 0 when none
StopMatch(s, i) ==
    LET hits == IF ~Boundary(s, i) THEN {}
                ELSE {k \in DOMAIN STOPWORDS :
                        /\ MatchAt(s, i, STOPWORDS[k])
                        /\ Boundary(s, i + Len(STOPWORDS[k]))}
    IN IF hits = {} THEN 0
       ELSE Len(STOPWORDS[CHOOSE k \in hits : \A j \in hits : k <= j])

\* re.sub(r"\b(hospital|...|facility)\b", " ", s)
RECURSIVE SubStopFrom(_, _)
SubStopFrom(s, i) ==
    IF i > Len(s) THEN <<>>
    ELSE LET n == StopMatch(s, i)
         IN IF n > 0 THEN <<" ">> \o SubStopFrom(s, i + n)
            ELSE <<s[i]>> \o SubStopFrom(s, i + 1)
SubStop(s) == SubStopFrom(s, 1)

\* re.sub(r"\s+", " ", s)
RECURSIVE CollapseWsFrom(_, _, _)
CollapseWsFrom(s, i, inRun) ==
    IF i > Len(s) THEN <<>>
    ELSE IF ~IsSpace(s[i]) THEN <<s[i]>> \o CollapseWsFrom(s, i + 1, FALSE)
         ELSE IF inRun THEN CollapseWsFrom(s, i + 1, TRUE)
              ELSE <<" ">> \o CollapseWsFrom(s, i + 1, TRUE)
CollapseWs(s) == CollapseWsFrom(s, 1, FALSE)

\* str.strip()
RECURSIVE LStrip(_)
LStrip(s) == IF s # <<>> /\ IsSpace(Head(s)) THEN LStrip(Tail(s)) ELSE s
RECURSIVE RStrip(_)
RStrip(s) ==
    IF s # <<>> /\ IsSpace(s[Len(s)]) THEN RStrip(SubSeq(s, 1, Len(s) - 1)) ELSE s
Strip(s) == RStrip(LStrip(s))

---------------------------------------------------------------------------
(* Name cleaning *)

\* a slip: the stopwords are removed before the punctuation is replaced
CleanStepsStopwordsFirst(s) ==
    LET folded == FoldStr(s)
        lowered == LowerStr(folded)
        stopped == SubStop(lowered)
        spaced == SubNonAlnum(stopped)
    IN Strip(CollapseWs(spaced))

\* the steps of _clean_name after the None test
CleanSteps(s) ==
    LET folded == FoldStr(s)
        lowered == LowerStr(folded)
        spaced == SubNonAlnum(lowered)
        stopped == SubStop(spaced)
    IN Strip(CollapseWs(stopped))

_clean_name(v) == IF v.t = "none" THEN <<>> ELSE CleanSteps(PyStr(v))

---------------------------------------------------------------------------
(* Tables *)

\* A DataFrame: its column labels, its rows (one cell per column) and its
\* row index labels.
Table(cols, rows, index) == [cols |-> cols, rows |-> rows, index |-> index]
RangeIndex(n) == [i \in 1..n |-> i - 1]
\* an exception raised by the call instead of a table
Raised(what) == [error |-> what]
IsTable(x) == "cols" \in DOMAIN x

\* df.empty: no rows or no columns
Empty(df) == Len(df.rows) = 0 \/ Len(df.cols) = 0
ColsOf(df) == {df.cols[i] : i \in DOMAIN df.cols}
\* name in df.columns
HasCol(df, name) == name \in ColsOf(df)
ColIdx(df, name) == {i \in DOMAIN df.cols : df.cols[i] = name}
\* df[name] of one row, for a label that names one column
Cell(df, row, name) == row[CHOOSE i \in ColIdx(df, name) : TRUE]

\* pd.isna / Series.notna of a cell
IsNa(v) == v.t \in {"nan", "none"}

\* a number m / 10^e, with e as small as possible
Num(m, e) == [t |-> "num", m |-> m, e |-> e]
RECURSIVE Normal(_, _)
Normal(m, e) == IF e > 0 /\ m % 10 = 0 THEN Normal(m \div 10, e - 1) ELSE Num(m, e)

---------------------------------------------------------------------------
(* Column names *)

\* the names of the columns, by the identifier used for them below
COLUMN ==
    [
     vendor |-> <<"v", "e", "n", "d", "o", "r">>,
     facility |-> <<"f", "a", "c", "i", "l", "i", "t", "y">>,
     provider |-> <<"p", "r", "o", "v", "i", "d", "e", "r">>,
     vendor_name |-> <<"v", "e", "n", "d", "o", "r", "_", "n", "a", "m", "e">>,
     claim |-> <<"c", "l", "a", "i", "m">>,
     claims |-> <<"c", "l", "a", "i", "m", "s">>,
     amount |-> <<"a", "m", "o", "u", "n", "t">>,
     kes |-> <<"k", "e", "s">>,
     ksh |-> <<"k", "s", "h">>,
     report_month |-> <<"r", "e", "p", "o", "r", "t", "_", "m", "o", "n", "t", "h">>,
     month |-> <<"m", "o", "n", "t", "h">>,
     report_year |-> <<"r", "e", "p", "o", "r", "t", "_", "y", "e", "a", "r">>,
     year |-> <<"y", "e", "a", "r">>,
     schedule |-> <<"s", "c", "h", "e", "d", "u", "l", "e">>,
     batch |-> <<"b", "a", "t", "c", "h">>,
     county |-> <<"c", "o", "u", "n", "t", "y">>,
     sub_county |-> <<"s", "u", "b", "_", "c", "o", "u", "n", "t", "y">>,
     subcounty |-> <<"s", "u", "b", "c", "o", "u", "n", "t", "y">>,
     sub_dash_county |-> <<"s", "u", "b", "-", "c", "o", "u", "n", "t", "y">>,
     latitude |-> <<"l", "a", "t", "i", "t", "u", "d", "e">>,
     lat |-> <<"l", "a", "t">>,
     longitude |-> <<"l", "o", "n", "g", "i", "t", "u", "d", "e">>,
     lon |-> <<"l", "o", "n">>,
     lng |-> <<"l", "n", "g">>,
     page |-> <<"p", "a", "g", "e">>,
     facility_id |-> <<"f", "a", "c", "i", "l", "i", "t", "y", "_", "i", "d">>,
     official_name |-> <<"o", "f", "f", "i", "c", "i", "a", "l", "_", "n", "a", "m", "e">>,
     name |-> <<"n", "a", "m", "e">>,
     facility_type |-> <<"f", "a", "c", "i", "l", "i", "t", "y", "_", "t", "y", "p", "e">>,
     keph_level |-> <<"k", "e", "p", "h", "_", "l", "e", "v", "e", "l">>,
     facility_name_clean |-> <<"f", "a", "c", "i", "l", "i", "t", "y", "_", "n", "a", "m", "e", "_", "c", "l", "e", "a", "n">>,
     vendor_clean |-> <<"v", "e", "n", "d", "o", "r", "_", "c", "l", "e", "a", "n">>,
     match_key |-> <<"m", "a", "t", "c", "h", "_", "k", "e", "y">>,
     match_score |-> <<"m", "a", "t", "c", "h", "_", "s", "c", "o", "r", "e">>,
     ym |-> <<"y", "m">>,
     claims_numeric |->
        <<"c", "l", "a", "i", "m", "s", "_", "n", "u", "m", "e", "r", "i", "c">>
    ]

MONTH_ORDER == <<
    <<"J", "a", "n", "u", "a", "r", "y">>,
    <<"F", "e", "b", "r", "u", "a", "r", "y">>,
    <<"M", "a", "r", "c", "h">>,
    <<"A", "p", "r", "i", "l">>,
    <<"M", "a", "y">>,
    <<"J", "u", "n", "e">>,
    <<"J", "u", "l", "y">>,
    <<"A", "u", "g", "u", "s", "t">>,
    <<"S", "e", "p", "t", "e", "m", "b", "e", "r">>,
    <<"O", "c", "t", "o", "b", "e", "r">>,
    <<"N", "o", "v", "e", "m", "b", "e", "r">>,
    <<"D", "e", "c", "e", "m", "b", "e", "r">> >>

---------------------------------------------------------------------------
(* Cell conversions of standardize *)

DigitSeq == <<"0", "1", "2", "3", "4", "5", "6", "7", "8", "9">>
DigitVal(c) == (CHOOSE i \in DOMAIN DigitSeq : DigitSeq[i] = c) - 1
RECURSIVE DigitsToInt(_)
DigitsToInt(ds) ==
    IF ds = <<>> THEN 0
    ELSE 10 * DigitsToInt(SubSeq(ds, 1, Len(ds) - 1)) + DigitVal(ds[Len(ds)])

\* pd.to_numeric(..., errors="coerce") of one string: an optional minus
\* sign, digits with at most one decimal point and at least one digit; any
\* other text is coerced to NaN.  (Exponents, "inf" and blanks around the
\* number are not among the inputs of the model.)
ToNumericStr(s) ==
    LET neg == s # <<>> /\ Head(s) = "-"
        body == IF neg THEN Tail(s) ELSE s
        dots == {i \in DOMAIN body : body[i] = "."}
        digits == SelectSeq(body, LAMBDA c : c \in DigitSet)
        fraction == IF dots = {} THEN 0 ELSE Len(body) - (CHOOSE i \in dots : TRUE)
    IN IF /\ \A i \in DOMAIN body : body[i] \in DigitSet \cup {"."}
          /\ Cardinality(dots) <= 1
          /\ digits # <<>>
       THEN Normal((IF neg THEN -1 ELSE 1) * DigitsToInt(digits), fraction)
       ELSE NaN

\* pd.to_numeric(..., errors="coerce") of one cell
ToNumeric(v) == IF v.t = "str" THEN ToNumericStr(v.s) ELSE IF v.t = "num" THEN v ELSE NaN

\* Series.astype(str) of one cell (pandas 2: a missing cell becomes "nan")
AsTypeStr(v) == PyStr(v)

\* vendor_name: .astype(str).str.replace(r"\s+", " ", regex=True).str.strip()
StdVendor(v) == Str(Strip(CollapseWs(AsTypeStr(v))))

\* a slip: the thousands separators are left in
StdAmountKeepCommas(v) ==
    ToNumericStr(SelectSeq(AsTypeStr(v), LAMBDA c : c \in DigitSet \cup {".", ",", "-"}))

\* amount: .astype(str).str.replace(r"[^\d.,-]", "").str.replace(",", ""),
\* then pd.to_numeric(..., errors="coerce")
StdAmount(v) ==
    LET kept == SelectSeq(AsTypeStr(v), LAMBDA c : c \in DigitSet \cup {".", ",", "-"})
        nocomma == SelectSeq(kept, LAMBDA c : c # ",")
    IN ToNumericStr(nocomma)

\* .astype("Int64") raises on a number with a fractional part
IsFractional(v) == v.t = "num" /\ v.e > 0

UpperChar(c) ==
    IF c \in LowerSet THEN UpperSeq[CHOOSE i \in DOMAIN LowerSeq : LowerSeq[i] = c]
    ELSE c
IsCased(c) == c \in LowerSet \cup UpperSet

\* str.title(): a cased letter is upper-cased after an uncased character
\* and lower-cased after a cased one
Title(s) ==
    [i \in DOMAIN s |->
        IF i > 1 /\ IsCased(s[i - 1]) THEN LowerChar(s[i]) ELSE UpperChar(s[i])]

\* report_month: .astype(str).str.title(), kept where it is in MONTH_ORDER
StdMonth(v) ==
    LET m == Title(AsTypeStr(v))
    IN IF \E k \in DOMAIN MONTH_ORDER : MONTH_ORDER[k] = m THEN Str(m) ELSE NaN

\* county, sub_county: .astype(str).str.strip(); "", "nan", "None" become NA
StdCounty(v) ==
    LET s == Strip(AsTypeStr(v))
    IN IF s \in {<<>>, <<"n", "a", "n">>, <<"N", "o", "n", "e">>} THEN NaN ELSE Str(s)

---------------------------------------------------------------------------
(* standardize *)

\* a slip: the header is looked up as written, without lower() and strip()
RenameCaseSensitive(c) ==
    CASE c \in {COLUMN.vendor, COLUMN.facility, COLUMN.provider, COLUMN.vendor_name} -> COLUMN.vendor_name
      [] c \in {COLUMN.claim, COLUMN.claims} -> COLUMN.claims
      [] c \in {COLUMN.amount, COLUMN.kes, COLUMN.ksh} -> COLUMN.amount
      [] c \in {COLUMN.report_month, COLUMN.month} -> COLUMN.report_month
      [] c \in {COLUMN.report_year, COLUMN.year} -> COLUMN.report_year
      [] c \in {COLUMN.schedule, COLUMN.batch} -> COLUMN.schedule
      [] c \in {COLUMN.county} -> COLUMN.county
      [] c \in {COLUMN.sub_county, COLUMN.subcounty, COLUMN.sub_dash_county} -> COLUMN.sub_county
      [] c \in {COLUMN.latitude, COLUMN.lat} -> COLUMN.latitude
      [] c \in {COLUMN.longitude, COLUMN.lon, COLUMN.lng} -> COLUMN.longitude
      [] OTHER -> c

\* the new label of column c: mapping[c] when the loop put c in the mapping,
\* c itself otherwise (DataFrame.rename leaves unmapped labels alone)
Rename(c) ==
    LET lc == Strip(LowerStr(c))
    IN CASE lc \in {COLUMN.vendor, COLUMN.facility, COLUMN.provider, COLUMN.vendor_name} -> COLUMN.vendor_name
         [] lc \in {COLUMN.claim, COLUMN.claims} -> COLUMN.claims
         [] lc \in {COLUMN.amount, COLUMN.kes, COLUMN.ksh} -> COLUMN.amount
         [] lc \in {COLUMN.report_month, COLUMN.month} -> COLUMN.report_month
         [] lc \in {COLUMN.report_year, COLUMN.year} -> COLUMN.report_year
         [] lc \in {COLUMN.schedule, COLUMN.batch} -> COLUMN.schedule
         [] lc \in {COLUMN.county} -> COLUMN.county
         [] lc \in {COLUMN.sub_county, COLUMN.subcounty, COLUMN.sub_dash_county} -> COLUMN.sub_county
         [] lc \in {COLUMN.latitude, COLUMN.lat} -> COLUMN.latitude
         [] lc \in {COLUMN.longitude, COLUMN.lon, COLUMN.lng} -> COLUMN.longitude
         [] OTHER -> c

\* the columns whose cells standardize converts through the .str accessor
\* (a label that names two columns makes out[label] a DataFrame, which has
\* no .str: AttributeError) ...
StrFields == {COLUMN.vendor_name, COLUMN.amount, COLUMN.report_month, COLUMN.county, COLUMN.sub_county}
\* ... and through pd.to_numeric (which rejects a DataFrame: TypeError)
NumFields == {COLUMN.report_year, COLUMN.schedule, COLUMN.latitude, COLUMN.longitude}
\* ... and then through .astype("Int64")
IntFields == {COLUMN.report_year, COLUMN.schedule}

\* the conversion standardize applies to a cell of column `name`
StdCell(name, v) ==
    CASE name = COLUMN.vendor_name -> StdVendor(v)
      [] name = COLUMN.amount -> StdAmount(v)
      [] name \in NumFields -> ToNumeric(v)
      [] name = COLUMN.report_month -> StdMonth(v)
      [] name \in {COLUMN.county, COLUMN.sub_county} -> StdCounty(v)
      [] OTHER -> v

\* the exception standardize raises on the renamed table, "" when none
StdRaises(out) ==
    LET twice(name) == Cardinality(ColIdx(out, name)) > 1
        fractional(name) ==
            \E r \in DOMAIN out.rows : \E i \in ColIdx(out, name) :
                IsFractional(ToNumeric(out.rows[r][i]))
    IN IF \E name \in StrFields : twice(name) THEN "AttributeError"
       ELSE IF \E name \in NumFields : twice(name) THEN "TypeError"
       ELSE IF \E name \in IntFields : fractional(name) THEN "TypeError"
       ELSE ""

standardize(df) ==
    IF Empty(df) THEN df
    ELSE
        LET renamed == Table([i \in DOMAIN df.cols |-> Rename(df.cols[i])],
                             df.rows, df.index)
            typed == [r \in DOMAIN renamed.rows |->
                        [i \in DOMAIN renamed.cols |->
                            StdCell(renamed.cols[i], renamed.rows[r][i])]]
            \* drop blank vendors
            keep(row) ==
                LET v == Cell(renamed, row, COLUMN.vendor_name)
                IN ~IsNa(v) /\ Len(v.s) > 0
            kept == IF HasCol(renamed, COLUMN.vendor_name)
                    THEN SelectSeq(typed, keep) ELSE typed
        IN IF StdRaises(renamed) # "" THEN Raised(StdRaises(renamed))
           ELSE Table(renamed.cols, kept, RangeIndex(Len(kept)))

---------------------------------------------------------------------------
(* remove_page_rows, drop_redundant_columns *)

RECURSIVE SkipWs(_, _)
\* the position after \s* matched from position i
SkipWs(s, i) == IF i <= Len(s) /\ IsSpace(s[i]) THEN SkipWs(s, i + 1) ELSE i


\* r"\s*page\s*\d+" with re.I, matched from position i
PageAt(s, i) ==
    LET p == SkipWs(s, i)
        d == SkipWs(s, p + 4)
    IN /\ p + 3 <= Len(s)
       /\ LowerStr(SubSeq(s, p, p + 3)) = COLUMN.page
       /\ d <= Len(s)
       /\ s[d] \in DigitSet

\* a slip: re.search, the pattern may match anywhere in the name
PageSearch(s) == \E i \in 1..Len(s) : PageAt(s, i)

\* Series.str.match(PAGE_ROW_RE): the pattern matches at the start
PageMatch(s) == PageAt(s, 1)

remove_page_rows(df) ==
    IF ~HasCol(df, COLUMN.vendor_name) \/ Empty(df) THEN df
    ELSE
        LET keep(row) == ~PageMatch(AsTypeStr(Cell(df, row, COLUMN.vendor_name)))
            kept == SelectSeq(df.rows, keep)
        IN Table(df.cols, kept, RangeIndex(Len(kept)))

drop_redundant_columns(df) ==
    LET stay == SelectSeq([i \in DOMAIN df.cols |-> i],
                          LAMBDA i : df.cols[i] \notin {COLUMN.claims, COLUMN.claims_numeric})
    IN Table([k \in DOMAIN stay |-> df.cols[stay[k]]],
             [r \in DOMAIN df.rows |-> [k \in DOMAIN stay |-> df.rows[r][stay[k]]]],
             df.index)

---------------------------------------------------------------------------
(* rapidfuzz: fuzz.token_sort_ratio and process.extractOne *)

\* the code point order of the characters of a cleaned name
CharRank(c) ==
    IF c = " " THEN 0
    ELSE IF c \in DigitSet THEN 1 + DigitVal(c)
    ELSE 10 + (CHOOSE i \in DOMAIN LowerSeq : LowerSeq[i] = c)

RECURSIVE StrLeq(_, _)
\* a <= b for Python strings
StrLeq(a, b) ==
    IF a = <<>> THEN TRUE
    ELSE IF b = <<>> THEN FALSE
    ELSE IF Head(a) = Head(b) THEN StrLeq(Tail(a), Tail(b))
    ELSE CharRank(Head(a)) < CharRank(Head(b))

RECURSIVE SplitFrom(_, _, _)
\* str.split(): the whitespace-separated tokens of s from position i on,
\* after the pending token cur
SplitFrom(s, i, cur) ==
    IF i > Len(s) THEN (IF cur = <<>> THEN <<>> ELSE <<cur>>)
    ELSE IF IsSpace(s[i])
         THEN (IF cur = <<>> THEN <<>> ELSE <<cur>>) \o SplitFrom(s, i + 1, <<>>)
         ELSE SplitFrom(s, i + 1, Append(cur, s[i]))
Split(s) == SplitFrom(s, 1, <<>>)

RECURSIVE Insert(_, _)
Insert(tok, sorted) ==
    IF sorted = <<>> THEN <<tok>>
    ELSE IF StrLeq(tok, Head(sorted)) THEN <<tok>> \o sorted
    ELSE <<Head(sorted)>> \o Insert(tok, Tail(sorted))
RECURSIVE SortTokens(_)
SortTokens(toks) ==
    IF toks = <<>> THEN <<>> ELSE Insert(Head(toks), SortTokens(Tail(toks)))
RECURSIVE JoinTokens(_)
JoinTokens(toks) ==
    IF toks = <<>> THEN <<>>
    ELSE IF Len(toks) = 1 THEN Head(toks)
    ELSE Head(toks) \o <<" ">> \o JoinTokens(Tail(toks))
\* " ".join(sorted(s.split()))
TokenSort(s) == JoinTokens(SortTokens(Split(s)))

Max(x, y) == IF x >= y THEN x ELSE y
RECURSIVE LcsRow(_, _, _, _)
\* the row of the LCS table for character c, given the row above; cur holds
\* the entries for the empty prefix and the first Len(cur) - 1 characters of b
LcsRow(above, c, b, cur) ==
    IF Len(cur) = Len(b) + 1 THEN cur
    ELSE LET j == Len(cur)
         IN LcsRow(above, c, b,
                   Append(cur, IF c = b[j] THEN above[j] + 1
                               ELSE Max(above[j + 1], cur[j])))
RECURSIVE LcsRows(_, _, _, _)
LcsRows(a, b, i, above) ==
    IF i > Len(a) THEN above[Len(b) + 1]
    ELSE LcsRows(a, b, i + 1, LcsRow(above, a[i], b, <<0>>))
\* the length of the longest common subsequence of a and b
Lcs(a, b) == LcsRows(a, b, 1, [j \in 1..(Len(b) + 1) |-> 0])

\* fuzz.ratio on the token-sorted strings: the normalized Indel similarity
\* 100 * 2 * lcs / (len(a) + len(b)), kept as the fraction n / d.  (A value
\* drawn from a set of one element is computed once.)
token_sort_ratio(q, c) ==
    CHOOSE score \in {
        IF Len(a) + Len(b) = 0 THEN [t |-> "ratio", n |-> 100, d |-> 1]
        ELSE [t |-> "ratio", n |-> 200 * Lcs(a, b), d |-> Len(a) + Len(b)] :
        a \in {TokenSort(q)}, b \in {TokenSort(c)}} : TRUE

\* score x >= the number k; score x > score y
ScoreAtLeast(x, k) == x.n >= k * x.d
ScoreAbove(x, y) == x.n * y.d > y.n * x.d

\* process.extractOne(q, choices, scorer=fuzz.token_sort_ratio,
\* score_cutoff=score_cutoff): the position of the first choice with the
\* highest score among those scoring at least the cutoff, 0 for None
extractOne(q, choices, score_cutoff) ==
    CHOOSE found \in {
        LET ok == {i \in DOMAIN choices : ScoreAtLeast(score[i], score_cutoff)}
            top == {i \in ok : \A j \in ok : ~ScoreAbove(score[j], score[i])}
        IN IF ok = {} THEN 0 ELSE CHOOSE i \in top : \A j \in top : i <= j :
        score \in {[i \in DOMAIN choices |-> token_sort_ratio(q, choices[i])]}} : TRUE

---------------------------------------------------------------------------
(* load_registry *)


key_cols == <<COLUMN.facility_id, COLUMN.official_name, COLUMN.name, COLUMN.county, COLUMN.sub_county,
              COLUMN.facility_type, COLUMN.keph_level>>

\* a registry file that does not exist
Missing == [missing |-> TRUE]

\* df[names]: the columns named, in that order
Take(df, names) ==
    Table(names,
          [r \in DOMAIN df.rows |->
              [k \in DOMAIN names |-> Cell(df, df.rows[r], names[k])]],
          df.index)

\* df.drop(columns=names, errors="ignore")
Drop(df, names) ==
    LET stay == SelectSeq([i \in DOMAIN df.cols |-> i],
                          LAMBDA i : df.cols[i] \notin names)
    IN Table([k \in DOMAIN stay |-> df.cols[stay[k]]],
             [r \in DOMAIN df.rows |-> [k \in DOMAIN stay |-> df.rows[r][stay[k]]]],
             df.index)

\* df[name] = cells, for a column the table does not have yet
WithCol(df, name, cells) ==
    Table(Append(df.cols, name),
          [r \in DOMAIN df.rows |-> Append(df.rows[r], cells[r])],
          df.index)

\* a slip: the empty registry lacks the derived key column
EmptyRegistryNoKey == Table(key_cols, <<>>, <<>>)

\* pd.DataFrame(columns=[...]): what load_registry returns for a missing file
EmptyRegistry == Table(key_cols \o <<COLUMN.facility_name_clean>>, <<>>, <<>>)

load_registry(path) ==
    IF path = Missing THEN EmptyRegistry
    ELSE IF ~HasCol(path, COLUMN.facility_name_clean)
    THEN WithCol(path, COLUMN.facility_name_clean,
                 [r \in DOMAIN path.rows |->
                     LET official == Cell(path, path.rows[r], COLUMN.official_name)
                         filled == IF IsNa(official)
                                   THEN Cell(path, path.rows[r], COLUMN.name)
                                   ELSE official
                     IN Str(_clean_name(filled))])
    ELSE path

---------------------------------------------------------------------------
(* enrich_with_registry *)

\* the value of one cell after `exact.loc[mask, key_cols] = series of dicts`:
\* the mapping reg_take[match_key], whole
Dict(keys, vals) == [t |-> "dict", keys |-> keys, vals |-> vals]

\* work.merge(right, left_on="vendor_clean", right_on="facility_name_clean",
\* how="left"): each row of work once per row of right with its key, in the
\* order of right, or once with nulls when no row of right has its key
MergeLeft(work, right) ==
    LET nulls == [k \in DOMAIN right.cols |-> NaN]
        joined(row) ==
            LET hits == SelectSeq(right.rows,
                                  LAMBDA e : e[1] = Cell(work, row, COLUMN.vendor_clean))
            IN IF hits = <<>> THEN <<row \o nulls>>
               ELSE [h \in DOMAIN hits |-> row \o hits[h]]
        rows == Concat([r \in DOMAIN work.rows |-> joined(work.rows[r])])
    IN Table(work.cols \o right.cols, rows, RangeIndex(Len(rows)))

\* the fuzzy pass over the result of the exact pass; HAVE_RAPIDFUZZ holds
FuzzyPass(exact, reg, score_cutoff) ==
    LET unresolved == [r \in DOMAIN exact.rows |->
                          IsNa(Cell(exact, exact.rows[r], COLUMN.facility_id))]
        choices == [i \in DOMAIN reg.rows |->
                       Cell(reg, reg.rows[i], COLUMN.facility_name_clean).s]
        \* to_dict("index") wants a unique index
        unique == \A i, j \in DOMAIN choices : choices[i] = choices[j] => i = j
        reg_take == [i \in DOMAIN reg.rows |->
                        Dict(key_cols, Take(reg, key_cols).rows[i])]
        best_match(q) ==
            IF q = <<>> THEN <<0, Num(0, 0)>>
            ELSE LET m == extractOne(q, choices, score_cutoff)
                 IN IF m = 0 THEN <<0, Num(0, 0)>>
                    ELSE <<m, token_sort_ratio(q, choices[m])>>
        keys == {key_cols[c] : c \in DOMAIN key_cols}
        dropped == {COLUMN.vendor_clean, COLUMN.facility_name_clean, COLUMN.match_key}
        \* matches: the position of the choice found for a row, and its score
        assigned(matches) ==
            LET match_key(r) ==
                    IF ~unresolved[r] THEN NaN
                    ELSE IF matches[r][1] = 0 THEN NoneV
                    ELSE Str(choices[matches[r][1]])
                match_score(r) == IF ~unresolved[r] THEN NaN ELSE matches[r][2]
                mask(r) == ~IsNa(match_key(r))
            IN [r \in DOMAIN exact.rows |->
                   [k \in DOMAIN exact.cols |->
                       IF mask(r) /\ exact.cols[k] \in keys
                       THEN reg_take[matches[r][1]] ELSE exact.rows[r][k]]
                   \o <<match_key(r), match_score(r)>>]
    IN IF ~\E r \in DOMAIN exact.rows : unresolved[r] THEN Drop(exact, dropped)
       ELSE IF ~unique THEN Raised("ValueError")
       ELSE CHOOSE out \in {
                Drop(Table(exact.cols \o <<COLUMN.match_key, COLUMN.match_score>>,
                           assigned(matches), exact.index),
                     dropped) :
                matches \in {[r \in DOMAIN exact.rows |->
                    IF unresolved[r]
                    THEN best_match(Cell(exact, exact.rows[r], COLUMN.vendor_clean).s)
                    ELSE <<0, NaN>>]}} : TRUE

enrich_with_registry(df, reg, fuzzy, score_cutoff) ==
    IF Empty(df) \/ Empty(reg) \/ ~HasCol(df, COLUMN.vendor_name) THEN df
    ELSE
        CHOOSE out \in {
            IF ~fuzzy \/ ~HAVE_RAPIDFUZZ
            THEN Drop(exact, {COLUMN.vendor_clean, COLUMN.facility_name_clean})
            ELSE FuzzyPass(exact, reg, score_cutoff) :
            exact \in {MergeLeft(work, right) :
                work \in {WithCol(df, COLUMN.vendor_clean,
                            [r \in DOMAIN df.rows |->
                                Str(_clean_name(Cell(df, df.rows[r], COLUMN.vendor_name)))])},
                right \in {Take(reg, <<COLUMN.facility_name_clean>> \o key_cols)}}} : TRUE

---------------------------------------------------------------------------
(* Filters + aggregates: filter_data, totals, top_vendors *)

\* a Python list of items
List(items) == [t |-> "list", items |-> items]
\* the truth value of an optional list: None and [] are false
Truthy(list) == list.t = "list" /\ Len(list.items) > 0

\* a slip: the filters are alternatives, a row passing any of them is kept
FilterAnyCriterion(df, vendors, months, years) ==
    LET vset == {Strip(LowerStr(vendors.items[i])) : i \in DOMAIN vendors.items}
        mset == {Title(months.items[i]) : i \in DOMAIN months.items}
        yset == {Num(years.items[i], 0) : i \in DOMAIN years.items}
        keep(row) ==
            \/ ~Truthy(vendors) /\ ~Truthy(months) /\ ~Truthy(years)
            \/ Truthy(vendors) /\ IsStr(Cell(df, row, COLUMN.vendor_name))
                /\ LowerStr(Cell(df, row, COLUMN.vendor_name).s) \in vset
            \/ Truthy(months) /\ IsStr(Cell(df, row, COLUMN.report_month))
                /\ Cell(df, row, COLUMN.report_month).s \in mset
            \/ Truthy(years) /\ Cell(df, row, COLUMN.report_year) \in yset
        kept == SelectSeq(df.rows, keep)
    IN Table(df.cols, kept, RangeIndex(Len(kept)))

filter_data(df, vendors, months, years) ==
    LET byVendor ==
            IF Truthy(vendors) /\ HasCol(df, COLUMN.vendor_name)
            THEN LET vset == {Strip(LowerStr(vendors.items[i])) : i \in DOMAIN vendors.items}
                 IN SelectSeq(df.rows, LAMBDA row :
                        /\ IsStr(Cell(df, row, COLUMN.vendor_name))
                        /\ LowerStr(Cell(df, row, COLUMN.vendor_name).s) \in vset)
            ELSE df.rows
        byMonth ==
            IF Truthy(months) /\ HasCol(df, COLUMN.report_month)
            THEN LET mset == {Title(months.items[i]) : i \in DOMAIN months.items}
                 IN SelectSeq(byVendor, LAMBDA row :
                        /\ IsStr(Cell(df, row, COLUMN.report_month))
                        /\ Cell(df, row, COLUMN.report_month).s \in mset)
            ELSE byVendor
        byYear ==
            IF Truthy(years) /\ HasCol(df, COLUMN.report_year)
            THEN LET yset == {Num(years.items[i], 0) : i \in DOMAIN years.items}
                 IN SelectSeq(byMonth, LAMBDA row : Cell(df, row, COLUMN.report_year) \in yset)
            ELSE byMonth
    \* reset_index(drop=True)
    IN Table(df.cols, byYear, RangeIndex(Len(byYear)))

RECURSIVE Pow10(_)
Pow10(e) == IF e = 0 THEN 1 ELSE 10 * Pow10(e - 1)
\* a + b of two numbers
AddNum(a, b) ==
    LET e == Max(a.e, b.e)
    IN Normal(a.m * Pow10(e - a.e) + b.m * Pow10(e - b.e), e)
\* a < b of two numbers
LessNum(a, b) ==
    LET e == Max(a.e, b.e)
    IN a.m * Pow10(e - a.e) < b.m * Pow10(e - b.e)

RECURSIVE SumKeepNa(_)
\* a slip: a missing amount makes the sum missing
SumKeepNa(cells) ==
    IF cells = <<>> THEN Num(0, 0)
    ELSE LET rest == SumKeepNa(Tail(cells))
         IN IF IsNa(Head(cells)) \/ IsNa(rest) THEN NaN
            ELSE AddNum(Head(cells), rest)

RECURSIVE SumSkipNa(_)
\* Series.sum(skipna=True): missing cells are skipped, no cell gives 0
SumSkipNa(cells) ==
    IF cells = <<>> THEN Num(0, 0)
    ELSE IF IsNa(Head(cells)) THEN SumSkipNa(Tail(cells))
    ELSE AddNum(Head(cells), SumSkipNa(Tail(cells)))

\* df[name] as the sequence of its cells
Column(df, name) == [r \in DOMAIN df.rows |-> Cell(df, df.rows[r], name)]

totals(df) ==
    [total_amount |-> IF HasCol(df, COLUMN.amount)
                      THEN SumSkipNa(Column(df, COLUMN.amount)) ELSE Num(0, 0),
     \* nunique() does not count missing names
     total_facilities |->
        IF HasCol(df, COLUMN.vendor_name)
        THEN Cardinality({v \in {Cell(df, df.rows[r], COLUMN.vendor_name) :
                                    r \in DOMAIN df.rows} : ~IsNa(v)})
        ELSE 0,
     total_claims |-> 0,
     rows |-> Len(df.rows)]

\* the code point of a character of a vendor name
Ord(c) ==
    IF c \in DigitSet THEN 48 + DigitVal(c)
    ELSE IF c \in UpperSet THEN 64 + (CHOOSE i \in DOMAIN UpperSeq : UpperSeq[i] = c)
    ELSE IF c \in LowerSet THEN 96 + (CHOOSE i \in DOMAIN LowerSeq : LowerSeq[i] = c)
    ELSE IF c = " " THEN 32 ELSE 33

RECURSIVE NameLeq(_, _)
\* a <= b for the names of the groups, the order groupby sorts them in
NameLeq(a, b) ==
    IF a = <<>> THEN TRUE
    ELSE IF b = <<>> THEN FALSE
    ELSE IF Head(a) = Head(b) THEN NameLeq(Tail(a), Tail(b))
    ELSE Ord(Head(a)) < Ord(Head(b))

RECURSIVE SortedNames(_)
\* the names of a set, ascending
SortedNames(names) ==
    IF names = {} THEN <<>>
    ELSE LET least == CHOOSE a \in names : \A b \in names : NameLeq(a, b)
         IN <<least>> \o SortedNames(names \ {least})

RECURSIVE InsertByAmount(_, _)
\* put a group into groups sorted by descending amount, after the groups of
\* an equal amount (sort_values keeps the order of equal amounts on the few
\* groups of the model)
InsertByAmount(g, sorted) ==
    IF sorted = <<>> THEN <<g>>
    ELSE IF LessNum(Head(sorted)[2], g[2]) THEN <<g>> \o sorted
    ELSE <<Head(sorted)>> \o InsertByAmount(g, Tail(sorted))
\* a slip: the groups are left in the order of their names
KeepGroupOrder(groups) == groups

RECURSIVE SortByAmountFrom(_, _, _)
SortByAmountFrom(groups, i, sorted) ==
    IF i > Len(groups) THEN sorted
    ELSE SortByAmountFrom(groups, i + 1, InsertByAmount(groups[i], sorted))
\* grp.sort_values("amount", ascending=False)
SortByAmount(groups) == SortByAmountFrom(groups, 1, <<>>)

\* DataFrame.head(k)
Head_k(rows, k) == SubSeq(rows, 1, IF k < Len(rows) THEN k ELSE Len(rows))

\* df.groupby("vendor_name", as_index=False, dropna=False)["amount"].sum():
\* one row per name, in ascending order of the names
GroupSum(df) ==
    LET keys == {Cell(df, df.rows[r], COLUMN.vendor_name) : r \in DOMAIN df.rows}
        named == SortedNames({v.s : v \in {x \in keys : IsStr(x)}})
        \* dropna=False: the rows without a name are a group, the last one
        groups == [g \in DOMAIN named |-> Str(named[g])]
                  \o (IF \E v \in keys : ~IsStr(v)
                      THEN <<CHOOSE v \in keys : ~IsStr(v)>> ELSE <<>>)
    IN [g \in DOMAIN groups |->
           <<groups[g],
             SumSkipNa(Column(Table(df.cols,
                              SelectSeq(df.rows, LAMBDA row :
                                  Cell(df, row, COLUMN.vendor_name) = groups[g]),
                              <<>>),
                        COLUMN.amount))>>]

top_vendors(df, k) ==
    IF Empty(df) \/ ~HasCol(df, COLUMN.vendor_name) \/ ~HasCol(df, COLUMN.amount)
    THEN Table(<<COLUMN.vendor_name, COLUMN.amount>>, <<>>, <<>>)
    ELSE LET grp == Head_k(SortByAmount(GroupSum(df)), k)
         IN Table(<<COLUMN.vendor_name, COLUMN.amount>>, grp, RangeIndex(Len(grp)))

---------------------------------------------------------------------------
(* The dashboard: the store of the filtered dataset and the views *)


\* JSON null
Null == [t |-> "null"]
\* a cell of a float64 column: the number m / 10^e
Float(m, e) == [t |-> "float", m |-> m, e |-> e]
\* a month of a year, and the missing month
Period(y, mo) == [t |-> "period", y |-> y, mo |-> mo]
NaT == [t |-> "nat"]

\* df.where(pd.notna(df), None)
WhereNotNa(df) ==
    Table(df.cols,
          [r \in DOMAIN df.rows |->
              [j \in DOMAIN df.cols |->
                  IF IsNa(df.rows[r][j]) THEN NoneV ELSE df.rows[r][j]]],
          df.index)

\* df.to_json(date_format="iso", orient="split"): the columns, the index and
\* the rows; a missing value is written as null
to_json(df) ==
    [columns |-> df.cols,
     index |-> df.index,
     data |-> [r \in DOMAIN df.rows |->
                  [j \in DOMAIN df.cols |->
                      IF IsNa(df.rows[r][j]) THEN Null ELSE df.rows[r][j]]]]

\* the dtype read_json gives a column: strings with nulls stay objects,
\* whole numbers without a null are int64, numbers with a null or with a
\* fraction are float64
ReadColumn(cells) ==
    IF \E i \in DOMAIN cells : cells[i].t = "str"
    THEN [i \in DOMAIN cells |-> IF cells[i].t = "null" THEN NoneV ELSE cells[i]]
    ELSE IF \A i \in DOMAIN cells : cells[i].t = "num" /\ cells[i].e = 0
    THEN cells
    ELSE [i \in DOMAIN cells |->
             IF cells[i].t = "null" THEN NaN ELSE Float(cells[i].m, cells[i].e)]

\* pd.read_json(StringIO(json_df), orient="split")
read_json(doc) ==
    LET column(j) == ReadColumn([r \in DOMAIN doc.data |-> doc.data[r][j]])
    IN Table(doc.columns,
             [r \in DOMAIN doc.data |-> [j \in DOMAIN doc.columns |-> column(j)[r]]],
             doc.index)

RECURSIVE IntDigits(_)
\* str(n) of a natural number
IntDigits(n) ==
    IF n < 10 THEN <<DigitSeq[n + 1]>>
    ELSE IntDigits(n \div 10) \o <<DigitSeq[(n % 10) + 1]>>

RECURSIVE FracDigits(_, _)
\* the e decimals of a fraction f / 10^e
FracDigits(f, e) ==
    IF e = 0 THEN <<>> ELSE FracDigits(f \div 10, e - 1) \o <<DigitSeq[(f % 10) + 1]>>

\* Series.astype(str) of a cell: an int64 without a point, a float64 with
\* its decimals and ".0" for a whole number
CellStr(v) ==
    CASE v.t = "num" -> IntDigits(v.m)
      [] v.t = "float" ->
            IntDigits(v.m \div Pow10(v.e)) \o <<".">>
            \o (IF v.e = 0 THEN <<"0">> ELSE FracDigits(v.m % Pow10(v.e), v.e))
      [] OTHER -> PyStr(v)

\* pd.to_datetime(s, format="%Y-%B", errors="coerce").to_period("M"): four
\* digits, a hyphen and the full name of a month in any case, nothing else
ToPeriod(s) ==
    IF /\ Len(s) > 5
       /\ \A i \in 1..4 : s[i] \in DigitSet
       /\ s[5] = "-"
       /\ \E k \in DOMAIN MONTH_ORDER :
             LowerStr(MONTH_ORDER[k]) = LowerStr(SubSeq(s, 6, Len(s)))
    THEN Period(DigitsToInt(SubSeq(s, 1, 4)),
                CHOOSE k \in DOMAIN MONTH_ORDER :
                    LowerStr(MONTH_ORDER[k]) = LowerStr(SubSeq(s, 6, Len(s))))
    ELSE NaT

\* the column ym of make_month_key
make_month_key(df) ==
    IF HasCol(df, COLUMN.report_year) /\ HasCol(df, COLUMN.report_month)
    THEN WithCol(df, COLUMN.ym,
            [r \in DOMAIN df.rows |->
                ToPeriod(CellStr(Cell(df, df.rows[r], COLUMN.report_year)) \o <<"-">>
                         \o CellStr(Cell(df, df.rows[r], COLUMN.report_month)))])
    ELSE WithCol(df, COLUMN.ym, [r \in DOMAIN df.rows |-> NaT])

\* a < b of two months
PeriodBefore(a, b) == a.y < b.y \/ (a.y = b.y /\ a.mo < b.mo)

RECURSIVE SortedPeriods(_)
\* the months of a set, the earliest first
SortedPeriods(ps) ==
    IF ps = {} THEN <<>>
    ELSE LET first == CHOOSE a \in ps : \A b \in ps \ {a} : PeriodBefore(a, b)
         IN <<first>> \o SortedPeriods(ps \ {first})

\* dfm.dropna(subset=["ym"]).groupby("ym", as_index=False)["amount"].sum()
\* .sort_values("ym"), or nothing when no row has a month
ByMonth(dfm) ==
    LET yms == SortedPeriods({Cell(dfm, dfm.rows[r], COLUMN.ym) : r \in DOMAIN dfm.rows}
                             \ {NaT})
    IN [g \in DOMAIN yms |->
           <<yms[g],
             SumSkipNa(Column(Table(dfm.cols,
                              SelectSeq(dfm.rows, LAMBDA row :
                                  Cell(dfm, row, COLUMN.ym) = yms[g]),
                              <<>>),
                        COLUMN.amount))>>]

RECURSIVE SortedKeys(_)
\* the (report_year, report_month) keys of the sunburst, by the year and
\* then by the name of the month
SortedKeys(ks) ==
    IF ks = {} THEN <<>>
    ELSE LET first == CHOOSE a \in ks : \A b \in ks \ {a} :
                          \/ a[1].m < b[1].m
                          \/ a[1].m = b[1].m /\ NameLeq(a[2].s, b[2].s)
         IN <<first>> \o SortedKeys(ks \ {first})

\* dfm.groupby(["report_year", "report_month"], as_index=False)["amount"].sum(),
\* the sunburst of a dataset without counties
Sunburst(dfm) ==
    IF ~(HasCol(dfm, COLUMN.report_year) /\ HasCol(dfm, COLUMN.report_month)) THEN <<>>
    ELSE LET key(row) == <<Cell(dfm, row, COLUMN.report_year), Cell(dfm, row, COLUMN.report_month)>>
             keys == SortedKeys({key(dfm.rows[r]) : r \in
                        {x \in DOMAIN dfm.rows :
                            ~IsNa(key(dfm.rows[x])[1]) /\ ~IsNa(key(dfm.rows[x])[2])}})
         IN [g \in DOMAIN keys |->
                <<keys[g][1], keys[g][2],
                  SumSkipNa(Column(Table(dfm.cols,
                                   SelectSeq(dfm.rows, LAMBDA row : key(row) = keys[g]),
                                   <<>>),
                             COLUMN.amount))>>]

RECURSIVE Commas(_)
\* the digits of a number in groups of three
Commas(ds) ==
    IF Len(ds) <= 3 THEN ds
    ELSE Commas(SubSeq(ds, 1, Len(ds) - 3)) \o <<",">> \o SubSeq(ds, Len(ds) - 2, Len(ds))

\* f"{n:,}"
FormatCount(n) == Commas(IntDigits(n))

\* f"{x:,.2f}" of an amount of two decimals at most
FormatAmount(x) ==
    LET cents == x.m * Pow10(2 - x.e)
    IN Commas(IntDigits(cents \div 100)) \o <<".">> \o FracDigits(cents % 100, 2)

\* the outputs of update_views for the content of the store
update_views(json_df) ==
    LET df == IF json_df = NoneV THEN RAW ELSE read_json(json_df)
    IN IF Empty(df)
       THEN [banner |-> <<"N", "o", " ", "d", "a", "t", "a", " ", "a", "v", "a", "i", "l", "a", "b", "l", "e", " ", "a", "t", " ", "t", "h", "e", " ", "m", "o", "m", "e", "n", "t">>,
             top_vendors |-> <<>>, by_month |-> <<>>, sunburst |-> <<>>,
             total_amount |-> <<"0", ".", "0", "0">>, total_facilities |-> <<"0">>,
             total_rows |-> <<"0">>, table |-> <<>>]
       ELSE CHOOSE out \in
            {[banner |-> <<>>,
              top_vendors |-> top_vendors(df, 20).rows,
              by_month |-> ByMonth(dfm),
              sunburst |-> Sunburst(dfm),
              total_amount |-> FormatAmount(t.total_amount),
              total_facilities |-> FormatCount(t.total_facilities),
              total_rows |-> FormatCount(t.rows),
              table |-> Head_k(df.rows, 500)] :
                 dfm \in {make_month_key(df)}, t \in {totals(df)}} : TRUE

---------------------------------------------------------------------------
(* Inputs of the cleaning pipeline: the tables read from a CSV file *)

Col(name, cells) == [name |-> name, cells |-> cells]

VendorCells == {
    NaN, Str(<<" ", " ">>), Str(<<"A", " ", " ", "b", " ">>), Str(<<"P", "a", "g", "e", " ", "3">>), Str(<<"V", "i", "l", "l", "a", "g", "e", " ", "P", "a", "g", "e", " ", "C", "l", "i", "n", "i", "c">>) }

AmountCells == {NaN, Str(<<"K", "E", "S", " ", "1", ",", "2", "5", "0", ".", "5", "0">>), Str(<<"a", "b", "c">>)}

\* the layouts of the raw table: the master CSV written by parse_pdf.py,
\* and tables whose headers are synonyms, unknown, or name a field twice
Headers == {
    << Col(<<"v", "e", "n", "d", "o", "r", "_", "n", "a", "m", "e">>, VendorCells), Col(<<"c", "l", "a", "i", "m", "s">>, {NaN}),
       Col(<<"a", "m", "o", "u", "n", "t">>, AmountCells), Col(<<"r", "e", "p", "o", "r", "t", "_", "m", "o", "n", "t", "h">>, {Str(<<"J", "a", "n", "u", "a", "r", "y">>)}),
       Col(<<"r", "e", "p", "o", "r", "t", "_", "y", "e", "a", "r">>, {Str(<<"2", "0", "2", "4">>)}), Col(<<"s", "c", "h", "e", "d", "u", "l", "e">>, {Str(<<"1">>)}),
       Col(<<"s", "o", "u", "r", "c", "e", "_", "p", "d", "f">>, {Str(<<"a", ".", "p", "d", "f">>)}) >>,
    << Col(<<"v", "e", "n", "d", "o", "r", "_", "n", "a", "m", "e">>,
           {Str(<<" ", "P", "A", "G", "E", " ", "1", "2">>), Str(<<"W", "a", "r", "d", " ", "P", "a", "g", "e", " ", "2">>), Str(<<"\t", "p", "a", "g", "e", " ", "\t", "7", "x">>), Str(<<"P", "a", "g", "e", "s", " ", "3">>)}) >>,
    << Col(<<"V", "e", "n", "d", "o", "r">>, {NaN, Str(<<>>), Str(<<"P", "a", "g", "e">>)}),
       Col(<<"K", "E", "S">>, {Str(<<"K", "E", "S", " ", "1", ",", "2", "5", "0", ".", "5", "0">>), Str(<<"a", "b", "c">>)}),
       Col(<<"N", "o", "t", "e", "s">>, {Str(<<"x">>)}) >>,
    << Col(<<" ", "F", "a", "c", "i", "l", "i", "t", "y", " ">>, {Str(<<"A", " ", " ", "b", " ">>)}),
       Col(<<"M", "o", "n", "t", "h">>, {NaN, Str(<<"j", "a", "n", "u", "a", "r", "y">>), Str(<<"F", "o", "o">>)}),
       Col(<<"Y", "E", "A", "R">>, {Str(<<"2", "0", "2", "4">>), Str(<<"a", "b", "c">>), Str(<<"2", "0", "2", "4", ".", "5">>)}) >>,
    << Col(<<"p", "r", "o", "v", "i", "d", "e", "r">>, {Str(<<"P", "a", "g", "e", " ", "3">>)}),
       Col(<<"C", "o", "u", "n", "t", "y">>, {NaN, Str(<<" ", "N", "a", "i", "r", "o", "b", "i", " ">>), Str(<<"n", "a", "n">>)}),
       Col(<<"S", "u", "b", "-", "C", "o", "u", "n", "t", "y">>, {Str(<<"N", "o", "n", "e">>), Str(<<"W", "e", "s", "t", "l", "a", "n", "d", "s">>)}),
       Col(<<"l", "a", "t">>, {Str(<<"-", "1", ".", "2", "5">>)}) >>,
    << Col(<<"v", "e", "n", "d", "o", "r">>, {Str(<<"A", " ", " ", "b", " ">>)}),
       Col(<<"b", "a", "t", "c", "h">>, {NaN, Str(<<"3">>), Str(<<"1", ".", "5">>)}),
       Col(<<"L", "N", "G">>, {Str(<<"3", "6", ".", "8">>), Str(<<"x">>)}),
       Col(<<"c", "l", "a", "i", "m", "s", "_", "n", "u", "m", "e", "r", "i", "c">>, {NaN}) >>,
    << Col(<<"a", "m", "o", "u", "n", "t">>, {Str(<<"-", "5">>), Str(<<"a", "b", "c">>)}),
       Col(<<"K", "s", "h">>, {Str(<<"-", "5">>)}),
       Col(<<"v", "e", "n", "d", "o", "r">>, {Str(<<"A", " ", " ", "b", " ">>)}) >>,
    << Col(<<"c", "l", "a", "i", "m">>, {NaN}), Col(<<"C", "l", "a", "i", "m", "s">>, {NaN}),
       Col(<<"v", "e", "n", "d", "o", "r">>, {NaN, Str(<<"A", " ", " ", "b", " ">>)}) >>,
    << Col(<<"N", "o", "t", "e", "s">>, {Str(<<"x">>), Str(<<"P", "a", "g", "e", " ", "3">>)}),
       Col(<<"a", "m", "o", "u", "n", "t">>, {Str(<<"-", "5">>), Str(<<"1", ".", "2", ".", "3">>), Str(<<"0", ".", "5", "0">>)}) >> }

RECURSIVE RowsOf(_, _)
\* the rows of a layout: one cell of each of its first k columns
RowsOf(h, k) ==
    IF k = 0 THEN {<<>>}
    ELSE {Append(r, c) : r \in RowsOf(h, k - 1), c \in h[k].cells}

\* the raw tables of at most n rows
RawTables(n) ==
    UNION {
        {Table([i \in DOMAIN h |-> h[i].name], rows, RangeIndex(k)) :
            rows \in [1..k -> RowsOf(h, Len(h))]} :
        h \in Headers, k \in 0..n }

NoTable == Table(<<>>, <<>>, <<>>)

\* the entity resolver is not in use: no registry, the default arguments
NoEnrichment ==
    /\ csv = Missing /\ registry = NoTable
    /\ use_fuzzy = TRUE /\ cutoff = DefaultCutoff /\ HAVE_RAPIDFUZZ = TRUE

\* the dashboard is not running
NoDashboard == RAW = NoTable /\ filtered_json = NoneV /\ views = NoneV

---------------------------------------------------------------------------
(* The cleaning pipeline of load_data, one call per step *)

Init ==
    /\ op = "init" /\ arg = NoneV /\ ret = <<>>
    /\ tbl \in RawTables(MaxRows)
    /\ prev = tbl
    /\ NoEnrichment
    /\ NoDashboard

\* 1) standardize column names/types
Standardize ==
    /\ op = "init"
    /\ op' = "standardize"
    /\ prev' = tbl
    /\ tbl' = standardize(tbl)
    /\ UNCHANGED <<arg, ret, csv, registry, use_fuzzy, cutoff, HAVE_RAPIDFUZZ, RAW, filtered_json, views>>

\* 2) remove page header/footer artifacts (also callable on a raw table)
RemovePageRows ==
    /\ op \in {"init", "standardize"}
    /\ IsTable(tbl)
    /\ op' = "remove_page_rows"
    /\ prev' = tbl
    /\ tbl' = remove_page_rows(tbl)
    /\ UNCHANGED <<arg, ret, csv, registry, use_fuzzy, cutoff, HAVE_RAPIDFUZZ, RAW, filtered_json, views>>

\* 3) drop redundant columns (claims + helper)
DropRedundantColumns ==
    /\ op = "remove_page_rows"
    /\ op' = "drop_redundant_columns"
    /\ prev' = tbl
    /\ tbl' = drop_redundant_columns(tbl)
    /\ UNCHANGED <<arg, ret, csv, registry, use_fuzzy, cutoff, HAVE_RAPIDFUZZ, RAW, filtered_json, views>>

Next == Standardize \/ RemovePageRows \/ DropRedundantColumns

Spec == Init /\ [][Next]_vars

---------------------------------------------------------------------------
(* Inputs of the name canonicalizer *)

Pieces == {
    <<"C", "l", "i", "n", "i", "c">>,
    <<"h", "e", "a", "l", "t", "h">>,
    <<" ">>, <<"_">>, <<".">>, <<"a">>, <<"U+00E9">>, <<"U+00DF">> }

RECURSIVE PieceStrings(_)
PieceStrings(n) ==
    IF n = 0 THEN {<<>>}
    ELSE LET shorter == PieceStrings(n - 1)
         IN shorter \cup {p \o s : p \in Pieces, s \in shorter}

StMarys == <<"S", "t", ".", " ", "M", "a", "r", "y", "'", "s", " ", "H", "o", "s",
             "p", "i", "t", "a", "l", ",", " ", "N", "a", "i", "r", "o", "b", "i">>

\* what a caller hands to _clean_name: None, a string, or the NaN that
\* Series.map passes for an absent cell of a name column
NameInputs ==
    {NoneV, NaN} \cup {Str(s) : s \in PieceStrings(MaxPieces) \cup {StMarys}}

---------------------------------------------------------------------------
(* The canonicalizer: the argument is drawn at the start, the call returns *)

InitClean ==
    /\ op = "init" /\ arg \in NameInputs /\ ret = <<>>
    /\ tbl = NoTable /\ prev = NoTable
    /\ NoEnrichment
    /\ NoDashboard

CallCleanName ==
    /\ op = "init"
    /\ op' = "_clean_name"
    /\ ret' = _clean_name(arg)
    /\ UNCHANGED <<arg, tbl, prev, csv, registry, use_fuzzy, cutoff, HAVE_RAPIDFUZZ, RAW, filtered_json, views>>

NextClean == CallCleanName

SpecClean == InitClean /\ [][NextClean]_vars

---------------------------------------------------------------------------
(* Inputs of the entity resolver *)

\* vendor names of the dataset: an exact match ("acme"), a reordered name
\* (score 100), a near miss above the default cutoff (score 95.7), one below
\* it (score 91.7), and a name made of stopwords only (empty key)
VendorNames == {
    <<"A", "C", "M", "E", " ", " ", "C", "l", "i", "n", "i", "c", "!", "!">>, <<"W", "e", "s", "t", " ", " ", "N", "a", "i", "r", "o", "b", "i">>, <<"N", "a", "i", "r", "o", "b", "i", " ", "W", "e", "s">>, <<"N", "a", "i", "r", "o", "b", "i", " ", "V", "e", "s", "t">>,
    <<"M", "e", "d", "i", "c", "a", "l", " ", "C", "l", "i", "n", "i", "c">> }

\* the datasets of at most n rows, in the layout load_data returns (no column
\* of the dataset carries the name of a registry attribute), and one dataset
\* without vendor_name
Datasets(n) ==
    UNION {
        {Table(<<COLUMN.vendor_name, COLUMN.amount>>, rows, RangeIndex(k)) :
            rows \in [1..k -> {<<Str(v), Num(1500, 0)>> : v \in VendorNames}]} :
        k \in 0..n }
    \cup {Table(<<COLUMN.amount>>, <<<<Num(1500, 0)>>>>, RangeIndex(1))}

\* the rows of the registry file, in the order of key_cols: two entities that
\* share the key "acme" (the second through its fallback name), one with the
\* key "nairobi west" and one with the key "west nairobi" (the two score alike
\* against any name, the score being blind to the order of the words)
Entities == {
    <<Str(<<"F", "1">>), Str(<<"A", "c", "m", "e", " ", "C", "l", "i", "n", "i", "c">>), NaN, Str(<<"N", "a", "i", "r", "o", "b", "i">>), Str(<<"S", "t", "a", "r", "e", "h", "e">>),
      Str(<<"D", "i", "s", "p", "e", "n", "s", "a", "r", "y">>), Num(2, 0)>>,
    <<Str(<<"F", "2">>), NaN, Str(<<"A", "C", "M", "E", " ", "H", "e", "a", "l", "t", "h", " ", "C", "e", "n", "t", "r", "e">>), Str(<<"K", "i", "a", "m", "b", "u">>), NaN,
      Str(<<"H", "e", "a", "l", "t", "h", " ", "C", "e", "n", "t", "r", "e">>), Num(3, 0)>>,
    <<Str(<<"F", "3">>), Str(<<"N", "a", "i", "r", "o", "b", "i", " ", "W", "e", "s", "t", " ", "H", "o", "s", "p", "i", "t", "a", "l">>), Str(<<"N", "W", "H">>), Str(<<"N", "a", "i", "r", "o", "b", "i">>),
      Str(<<"L", "a", "n", "g", "a", "t", "a">>), Str(<<"H", "o", "s", "p", "i", "t", "a", "l">>), Num(5, 0)>>,
    <<Str(<<"F", "4">>), Str(<<"W", "e", "s", "t", " ", "N", "a", "i", "r", "o", "b", "i", " ", "C", "l", "i", "n", "i", "c">>), NaN, Str(<<"N", "a", "i", "r", "o", "b", "i">>),
      Str(<<"W", "e", "s", "t", "l", "a", "n", "d", "s">>), Str(<<"C", "l", "i", "n", "i", "c">>), Num(3, 0)>> }

\* a registry file that carries a precomputed key
Precomputed ==
    Table(key_cols \o <<COLUMN.facility_name_clean>>,
          << <<Str(<<"F", "5">>), Str(<<"A", "c", "m", "e", " ", "C", "l", "i", "n", "i", "c">>), NaN, Str(<<"M", "o", "m", "b", "a", "s", "a">>), NaN,
               Str(<<"C", "l", "i", "n", "i", "c">>), Num(2, 0), Str(<<"a", "c", "m", "e", " ", "c", "l", "i", "n", "i", "c">>)>> >>,
          RangeIndex(1))

\* the registry files: none, one with a precomputed key, and those listing at
\* most n distinct entities in some order
RegistryFiles(n) ==
    {Missing, Precomputed} \cup
    UNION {
        {Table(key_cols, rows, RangeIndex(k)) :
            rows \in {f \in [1..k -> Entities] :
                        \A i, j \in 1..k : f[i] = f[j] => i = j}} :
        k \in 0..n }

---------------------------------------------------------------------------
(* The entity resolver: load the registry, then enrich the dataset *)

InitEnrich ==
    /\ op = "init" /\ arg = NoneV /\ ret = <<>>
    /\ tbl \in Datasets(MaxRows)
    /\ prev = tbl
    /\ csv \in RegistryFiles(MaxEntities)
    /\ registry = NoTable
    /\ use_fuzzy \in BOOLEAN
    /\ HAVE_RAPIDFUZZ \in BOOLEAN
    /\ cutoff \in {DefaultCutoff, 100}
    \* a cutoff other than the default is of interest to the fuzzy pass only
    /\ cutoff # DefaultCutoff => use_fuzzy /\ HAVE_RAPIDFUZZ
    /\ NoDashboard

LoadRegistry ==
    /\ op = "init"
    /\ op' = "load_registry"
    /\ registry' = load_registry(csv)
    /\ UNCHANGED <<arg, ret, tbl, prev, csv, use_fuzzy, cutoff, HAVE_RAPIDFUZZ, RAW, filtered_json, views>>

EnrichWithRegistry ==
    /\ op = "load_registry"
    /\ op' = "enrich_with_registry"
    /\ prev' = tbl
    /\ tbl' = enrich_with_registry(tbl, registry, use_fuzzy, cutoff)
    /\ UNCHANGED <<arg, ret, csv, registry, use_fuzzy, cutoff, HAVE_RAPIDFUZZ, RAW, filtered_json, views>>

NextEnrich == LoadRegistry \/ EnrichWithRegistry

SpecEnrich == InitEnrich /\ [][NextEnrich]_vars

---------------------------------------------------------------------------
(* Inputs of the filters and aggregates: cleaned datasets, as load_data
   returns them, and the arguments of the calls *)

\* the rows of a cleaned dataset: vendor_name, amount, report_month and
\* report_year; a name in two spellings, a missing amount, a missing month
\* and year, a missing year alone
Records == {
    <<Str(<<"A", "c", "m", "e", " ", "C", "l", "i", "n", "i", "c">>), Num(12505, 1), Str(<<"J", "a", "n", "u", "a", "r", "y">>), Num(2024, 0)>>,
    <<Str(<<"A", "C", "M", "E", " ", "C", "L", "I", "N", "I", "C">>), Num(100, 0), Str(<<"D", "e", "c", "e", "m", "b", "e", "r">>), Num(2024, 0)>>,
    <<Str(<<"B", "e", "t", "a", " ", "H", "o", "s", "p", "i", "t", "a", "l">>), NaN, Str(<<"J", "a", "n", "u", "a", "r", "y">>), Num(2025, 0)>>,
    <<Str(<<"B", "e", "t", "a", " ", "H", "o", "s", "p", "i", "t", "a", "l">>), Num(2000, 0), NaN, NaN>>,
    <<Str(<<"A", "c", "m", "e", " ", "C", "l", "i", "n", "i", "c">>), Num(300, 0), Str(<<"D", "e", "c", "e", "m", "b", "e", "r">>), NaN>> }

\* the cleaned datasets of at most n rows
CleanTables(n) ==
    UNION {
        {Table(<<COLUMN.vendor_name, COLUMN.amount, COLUMN.report_month, COLUMN.report_year>>,
               rows, RangeIndex(k)) : rows \in [1..k -> Records]} :
        k \in 0..n }

\* the selections handed to filter_data: nothing, an empty list, or lists of
\* names, months and years
VendorLists ==
    {NoneV, List(<<>>), List(<<<<" ", "A", "C", "M", "E", " ", "c", "l", "i", "n", "i", "c", " ">>>>),
     List(<<<<"b", "e", "t", "a", " ", "h", "o", "s", "p", "i", "t", "a", "l">>,
            <<"A", "c", "m", "e", " ", "C", "l", "i", "n", "i", "c">>>>)}
MonthLists ==
    {NoneV, List(<<<<"J", "A", "N", "U", "A", "R", "Y">>>>),
     List(<<<<"d", "e", "c", "e", "m", "b", "e", "r">>,
            <<"j", "a", "n", "u", "a", "r", "y">>>>)}
YearLists == {NoneV, List(<<2024>>)}

\* the calls: filter_data with its selections, totals, top_vendors with k
Calls ==
    {[fn |-> "filter_data", vendors |-> v, months |-> m, years |-> y] :
        v \in VendorLists, m \in MonthLists, y \in YearLists}
    \cup {[fn |-> "totals"]}
    \cup {[fn |-> "top_vendors", k |-> k] : k \in 1..2}

---------------------------------------------------------------------------
(* The filters and aggregates: one call on a cleaned dataset *)

InitQuery ==
    /\ op = "init" /\ arg \in Calls /\ ret = <<>>
    /\ tbl \in CleanTables(MaxRecords)
    /\ prev = tbl
    /\ NoEnrichment
    /\ NoDashboard

FilterData ==
    /\ op = "init" /\ arg.fn = "filter_data"
    /\ op' = "filter_data"
    /\ prev' = tbl
    /\ tbl' = filter_data(tbl, arg.vendors, arg.months, arg.years)
    /\ UNCHANGED <<arg, ret, csv, registry, use_fuzzy, cutoff, HAVE_RAPIDFUZZ, RAW, filtered_json, views>>

Totals ==
    /\ op = "init" /\ arg.fn = "totals"
    /\ op' = "totals"
    /\ ret' = totals(tbl)
    /\ UNCHANGED <<arg, tbl, prev, csv, registry, use_fuzzy, cutoff, HAVE_RAPIDFUZZ, RAW, filtered_json, views>>

TopVendors ==
    /\ op = "init" /\ arg.fn = "top_vendors"
    /\ op' = "top_vendors"
    /\ prev' = tbl
    /\ tbl' = top_vendors(tbl, arg.k)
    /\ UNCHANGED <<arg, ret, csv, registry, use_fuzzy, cutoff, HAVE_RAPIDFUZZ, RAW, filtered_json, views>>

NextQuery == FilterData \/ Totals \/ TopVendors

SpecQuery == InitQuery /\ [][NextQuery]_vars

---------------------------------------------------------------------------
(* The dashboard: Apply clicks and the refresh of the views *)

\* the values of the three dropdowns: cleared (None or []) or an option
VendorOptions == {NoneV, List(<<>>), List(<<<<"A", "c", "m", "e", " ", "C", "l", "i", "n", "i", "c">>>>)}
MonthOptions == {List(<<>>), List(<<<<"J", "a", "n", "u", "a", "r", "y">>>>)}
YearOptions == {NoneV, List(<<2024>>)}

\* RAW = fx.load_data(); the store is seeded with INITIAL_JSON
InitApp ==
    /\ op = "init" /\ arg = NoneV /\ ret = <<>>
    /\ tbl = NoTable /\ prev = NoTable
    /\ NoEnrichment
    /\ RAW \in CleanTables(MaxRaw)
    /\ filtered_json = to_json(RAW)
    /\ views = NoneV

\* a slip: an Apply click filters the dataset of the store
ApplyFiltersToStore ==
    \E vendors \in VendorOptions, months \in MonthOptions, years \in YearOptions :
        /\ op' = "apply_filters"
        /\ arg' = [fn |-> "apply_filters", vendors |-> vendors,
                   months |-> months, years |-> years]
        /\ filtered_json' =
              to_json(WhereNotNa(filter_data(read_json(filtered_json),
                                             vendors, months, years)))
        /\ UNCHANGED <<ret, tbl, prev, csv, registry, use_fuzzy, cutoff,
                       HAVE_RAPIDFUZZ, RAW, views>>

\* apply_filters: a click on Apply with the values of the dropdowns
ApplyFilters ==
    \E vendors \in VendorOptions, months \in MonthOptions, years \in YearOptions :
        /\ op' = "apply_filters"
        /\ arg' = [fn |-> "apply_filters", vendors |-> vendors,
                   months |-> months, years |-> years]
        /\ filtered_json' = to_json(WhereNotNa(filter_data(RAW, vendors, months, years)))
        /\ UNCHANGED <<ret, tbl, prev, csv, registry, use_fuzzy, cutoff,
                       HAVE_RAPIDFUZZ, RAW, views>>

\* update_views: fired by the store, at start-up and after an Apply
UpdateViews ==
    /\ op \in {"init", "apply_filters"}
    /\ op' = "update_views"
    /\ views' = update_views(filtered_json)
    /\ UNCHANGED <<arg, ret, tbl, prev, csv, registry, use_fuzzy, cutoff,
                   HAVE_RAPIDFUZZ, RAW, filtered_json>>

NextApp == ApplyFilters \/ UpdateViews

SpecApp == InitApp /\ [][NextApp]_vars

---------------------------------------------------------------------------
(* Claims on the canonicalizer *)

\* C1: _clean_name is idempotent: cleaning the value a call returned gives
\* that value again, for every argument.
C1_Idempotent == op = "_clean_name" => _clean_name(Str(ret)) = ret

\* C1 witness: a call on a name with a stopword glued to punctuation returned
\* a non-empty key.
C1_Witness ==
    /\ op = "_clean_name" /\ IsStr(arg) /\ ret # <<>>
    /\ \E i \in DOMAIN arg.s : arg.s[i] = "_"
    /\ \E i \in DOMAIN arg.s : MatchAt(arg.s, i, <<"C", "l", "i", "n", "i", "c">>)

\* C2 as stated: "St. Mary's Hospital, Nairobi" canonicalizes to
\* "st marys nairobi".
C2_AsStated ==
    (op = "_clean_name" /\ arg = Str(StMarys)) =>
        ret = <<"s", "t", " ", "m", "a", "r", "y", "s", " ",
                "n", "a", "i", "r", "o", "b", "i">>

\* C2 amended: "St. Mary's Hospital, Nairobi" canonicalizes to
\* "st mary s nairobi": the stopword and the punctuation are removed, and the
\* apostrophe, like every run of non-alphanumerics, becomes one space.
C2_StMarys ==
    (op = "_clean_name" /\ arg = Str(StMarys)) =>
        ret = <<"s", "t", " ", "m", "a", "r", "y", " ", "s", " ",
                "n", "a", "i", "r", "o", "b", "i">>

\* C2 witness: the call on "St. Mary's Hospital, Nairobi" has returned.
C2_Witness == op = "_clean_name" /\ arg = Str(StMarys)

\* C3 as stated: for None and for the NaN of an absent cell _clean_name
\* returns the empty string.
C3_AbsentIsEmpty ==
    (op = "_clean_name" /\ arg \in {NoneV, NaN}) => ret = <<>>

---------------------------------------------------------------------------
(* Claims on standardize and remove_page_rows *)

\* the synonym sets of the specification: <<header alias, schema field>>
ClaimSynonyms == {
    <<COLUMN.vendor, COLUMN.vendor_name>>, <<COLUMN.facility, COLUMN.vendor_name>>,
    <<COLUMN.provider, COLUMN.vendor_name>>, <<COLUMN.vendor_name, COLUMN.vendor_name>>,
    <<COLUMN.claim, COLUMN.claims>>, <<COLUMN.claims, COLUMN.claims>>,
    <<COLUMN.amount, COLUMN.amount>>, <<COLUMN.kes, COLUMN.amount>>, <<COLUMN.ksh, COLUMN.amount>>,
    <<COLUMN.report_month, COLUMN.report_month>>, <<COLUMN.month, COLUMN.report_month>>,
    <<COLUMN.report_year, COLUMN.report_year>>, <<COLUMN.year, COLUMN.report_year>>,
    <<COLUMN.schedule, COLUMN.schedule>>, <<COLUMN.batch, COLUMN.schedule>>,
    <<COLUMN.county, COLUMN.county>>,
    <<COLUMN.sub_county, COLUMN.sub_county>>, <<COLUMN.subcounty, COLUMN.sub_county>>,
    <<COLUMN.sub_dash_county, COLUMN.sub_county>>,
    <<COLUMN.latitude, COLUMN.latitude>>, <<COLUMN.lat, COLUMN.latitude>>,
    <<COLUMN.longitude, COLUMN.longitude>>, <<COLUMN.lon, COLUMN.longitude>>, <<COLUMN.lng, COLUMN.longitude>> }
ClaimSchema == {p[2] : p \in ClaimSynonyms}
\* the schema field a header stands for, the header itself when it is no alias
ClaimField(c) ==
    LET folded == LowerStr(Strip(c))
        hits == {p \in ClaimSynonyms : p[1] = folded}
    IN IF hits = {} THEN c ELSE (CHOOSE p \in hits : TRUE)[2]
ClaimFields(t) == [i \in DOMAIN t.cols |-> ClaimField(t.cols[i])]
ClaimCols(t, field) == LET fs == ClaimFields(t) IN {i \in DOMAIN fs : fs[i] = field}
\* a vendor_name that is absent, empty or whitespace only
ClaimBlank(v) == IsNa(v) \/ \A i \in DOMAIN v.s : IsSpace(v.s[i])
\* a trimmed, whitespace-collapsed, non-empty string
ClaimTidy(v) ==
    /\ IsStr(v) /\ v.s # <<>>
    /\ ~IsSpace(v.s[1]) /\ ~IsSpace(v.s[Len(v.s)])
    /\ \A i \in DOMAIN v.s : IsSpace(v.s[i]) => v.s[i] = " " /\ ~IsSpace(v.s[i + 1])
\* the rows of t that name a vendor (all rows when t has no vendor column)
ClaimNamedRows(t) ==
    LET vs == ClaimCols(t, COLUMN.vendor_name)
    IN IF vs = {} THEN t.rows
       ELSE SelectSeq(t.rows, LAMBDA r : \E i \in vs : ~ClaimBlank(r[i]))
\* the amount the specification gives for a raw cell of the model
ClaimAmount(v) ==
    CASE v = Str(<<"K", "E", "S", " ", "1", ",", "2", "5", "0", ".", "5", "0">>) -> Num(12505, 1)
      [] v = Str(<<"-", "5">>) -> Num(-5, 0)
      [] v = Str(<<"0", ".", "5", "0">>) -> Num(5, 1)
      [] OTHER -> NaN
RECURSIVE ClaimSubseq(_, _)
\* a is b with some elements left out
ClaimSubseq(a, b) ==
    IF a = <<>> THEN TRUE
    ELSE IF b = <<>> THEN FALSE
    ELSE IF Head(a) = Head(b) THEN ClaimSubseq(Tail(a), Tail(b))
    ELSE ClaimSubseq(a, Tail(b))
\* t with every amount cell replaced by v
ClaimWithAmounts(t, v) ==
    LET as == ClaimCols(t, COLUMN.amount)
    IN Table(t.cols,
             [r \in DOMAIN t.rows |->
                 [i \in DOMAIN t.cols |-> IF i \in as THEN v ELSE t.rows[r][i]]],
             t.index)
\* a decimal text with a non-zero digit after the point
ClaimFraction(v) ==
    /\ IsStr(v)
    /\ \E i \in DOMAIN v.s :
          /\ v.s[i] = "."
          /\ \A j \in DOMAIN v.s \ {i} : v.s[j] \in DigitSet
          /\ \E j \in DOMAIN v.s : j > i /\ v.s[j] # "0"
\* two columns stand for the same converted field, or a year or schedule
\* cell has a fraction
ClaimUnconvertible(t) ==
    LET fs == ClaimFields(t)
    IN \/ \E i, j \in DOMAIN fs :
             i < j /\ fs[i] = fs[j] /\ fs[i] \in ClaimSchema \ {COLUMN.claims}
       \/ \E i \in DOMAIN fs : \E r \in DOMAIN t.rows :
             fs[i] \in {COLUMN.report_year, COLUMN.schedule} /\ ClaimFraction(t.rows[r][i])

\* C4 as stated: standardize drops every row whose vendor_name is absent,
\* empty or whitespace only: the output has exactly the rows that name a
\* vendor, each with a non-empty, trimmed, whitespace-collapsed name.
C4_BlankVendorsDropped ==
    (op = "standardize" /\ IsTable(tbl) /\ ~Empty(prev)
        /\ ClaimCols(prev, COLUMN.vendor_name) # {}) =>
        /\ Len(tbl.rows) = Len(ClaimNamedRows(prev))
        /\ \A k \in DOMAIN tbl.rows : ClaimTidy(Cell(tbl, tbl.rows[k], COLUMN.vendor_name))

\* C5: standardize never fails because of an amount cell, turns every raw
\* amount into the number left after stripping ("KES 1,250.50" gives 1250.5)
\* or into an absent value ("abc"), and keeps, in order, every row that
\* names a vendor whatever its amount.
C5_AmountCoerced ==
    (op = "standardize" /\ ~Empty(prev) /\ ClaimCols(prev, COLUMN.amount) # {}) =>
        IF IsTable(tbl)
        THEN LET a == CHOOSE i \in ClaimCols(prev, COLUMN.amount) : TRUE
                 named == ClaimNamedRows(prev)
             IN /\ \A k \in DOMAIN tbl.rows :
                      /\ tbl.rows[k][a].t \in {"num", "nan"}
                      /\ \E r \in DOMAIN prev.rows :
                            tbl.rows[k][a] = ClaimAmount(prev.rows[r][a])
                /\ ClaimSubseq([j \in DOMAIN named |-> ClaimAmount(named[j][a])],
                               [k \in DOMAIN tbl.rows |-> tbl.rows[k][a]])
        ELSE ~IsTable(standardize(ClaimWithAmounts(prev, Str(<<"0">>))))

\* C5 witness: a table with the amounts "KES 1,250.50" and "abc" on two named
\* rows was standardized to the amounts 1250.5 and absent.
C5_Witness ==
    /\ op = "standardize" /\ IsTable(tbl) /\ HasCol(tbl, COLUMN.amount)
    /\ Len(prev.rows) = 2 /\ Len(tbl.rows) = 2
    /\ \E i \in ColIdx(tbl, COLUMN.amount) :
          /\ prev.rows[1][i] = Str(<<"K", "E", "S", " ", "1", ",", "2", "5", "0", ".", "5", "0">>)
          /\ prev.rows[2][i] = Str(<<"a", "b", "c">>)
          /\ tbl.rows[1][i] = Num(12505, 1)
          /\ tbl.rows[2][i] = NaN

ClaimPageMarker(v) ==
    /\ IsStr(v)
    /\ \E a \in 0..Len(v.s) : \E b \in (a + 4)..(Len(v.s) - 1) :
          /\ \A i \in 1..a : IsSpace(v.s[i])
          /\ LowerStr(SubSeq(v.s, a + 1, a + 4)) = COLUMN.page
          /\ \A i \in (a + 5)..b : IsSpace(v.s[i])
          /\ v.s[b + 1] \in DigitSet

\* C7: remove_page_rows removes exactly the rows whose vendor_name is a page
\* marker and keeps every other row, in order; a table without vendor_name
\* or without rows is returned as it is.
C7_PageRowsRemoved ==
    op = "remove_page_rows" =>
        IF HasCol(prev, COLUMN.vendor_name) /\ ~Empty(prev)
        THEN /\ tbl.cols = prev.cols
             /\ tbl.rows = SelectSeq(prev.rows,
                    LAMBDA r : ~ClaimPageMarker(Cell(prev, r, COLUMN.vendor_name)))
        ELSE tbl = prev

\* C7 witness: of the rows "Page 3" and "Village Page Clinic" only the second
\* is left.
C7_Witness ==
    /\ op = "remove_page_rows" /\ HasCol(prev, COLUMN.vendor_name)
    /\ Len(prev.rows) = 2 /\ Len(tbl.rows) = 1
    /\ Cell(prev, prev.rows[1], COLUMN.vendor_name) = Str(<<"P", "a", "g", "e", " ", "3">>)
    /\ Cell(prev, prev.rows[2], COLUMN.vendor_name) = Str(<<"V", "i", "l", "l", "a", "g", "e", " ", "P", "a", "g", "e", " ", "C", "l", "i", "n", "i", "c">>)
    /\ Cell(tbl, tbl.rows[1], COLUMN.vendor_name) = Str(<<"V", "i", "l", "l", "a", "g", "e", " ", "P", "a", "g", "e", " ", "C", "l", "i", "n", "i", "c">>)

---------------------------------------------------------------------------
(* Claims about the registry loader and the entity resolver *)

\* the expected column set of a registry, as the specification lists it
ClaimRegistryCols == <<
    <<"f", "a", "c", "i", "l", "i", "t", "y", "_", "i", "d">>, <<"o", "f", "f", "i", "c", "i", "a", "l", "_", "n", "a", "m", "e">>, <<"n", "a", "m", "e">>, <<"c", "o", "u", "n", "t", "y">>, <<"s", "u", "b", "_", "c", "o", "u", "n", "t", "y">>,
    <<"f", "a", "c", "i", "l", "i", "t", "y", "_", "t", "y", "p", "e">>, <<"k", "e", "p", "h", "_", "l", "e", "v", "e", "l">>, <<"f", "a", "c", "i", "l", "i", "t", "y", "_", "n", "a", "m", "e", "_", "c", "l", "e", "a", "n">> >>
ClaimVendorCol == <<"v", "e", "n", "d", "o", "r", "_", "n", "a", "m", "e">>
ClaimColSet(t) == {t.cols[i] : i \in DOMAIN t.cols}
\* the cell of row `row` of table t under the column named
ClaimCell(t, row, name) == row[CHOOSE i \in DOMAIN t.cols : t.cols[i] = name]
\* the seven registry attributes of a row, in the order of ClaimRegistryCols
ClaimAttrs(t, row) == [k \in 1..7 |-> ClaimCell(t, row, ClaimRegistryCols[k])]
ClaimNull(v) == v \in {NaN, NoneV}
\* enrichment has something to do: neither table is empty, vendor_name exists
ClaimEnrichable ==
    /\ prev.rows # <<>> /\ ClaimVendorCol \in ClaimColSet(prev)
    /\ registry.rows # <<>>

\* C8: a missing registry file gives an empty registry with the eight expected
\* columns and no error, and enriching against an empty registry, or enriching
\* an empty dataset or one without vendor_name, returns the dataset as it was
C8_UnavailableRegistry ==
    /\ op \in {"load_registry", "enrich_with_registry"} /\ csv = Missing
       => /\ IsTable(registry)
          /\ registry.cols = ClaimRegistryCols
          /\ registry.rows = <<>>
    /\ op = "enrich_with_registry" /\ ~ClaimEnrichable => tbl = prev

\* a dataset with rows and vendor_name has been enriched against the registry
\* loaded from a missing file
C8_Witness ==
    /\ op = "enrich_with_registry" /\ csv = Missing
    /\ registry.cols = ClaimRegistryCols /\ registry.rows = <<>>
    /\ Len(prev.rows) = 2 /\ ClaimVendorCol \in ClaimColSet(prev)
    /\ tbl = prev

\* C9: with a non-empty dataset and registry, every row whose canonicalized
\* vendor_name equals the key of a registry entity is given that entity's
\* facility_id and registry attributes, with fuzzy matching on or off
C9_ExactPass ==
    op = "enrich_with_registry" /\ ClaimEnrichable =>
        \A r \in DOMAIN prev.rows, e \in DOMAIN registry.rows :
            Str(_clean_name(ClaimCell(prev, prev.rows[r], ClaimVendorCol)))
                = ClaimCell(registry, registry.rows[e], ClaimRegistryCols[8])
            => /\ IsTable(tbl)
               /\ \E k \in DOMAIN tbl.rows :
                    /\ \A c \in DOMAIN prev.cols :
                          ClaimCell(tbl, tbl.rows[k], prev.cols[c]) = prev.rows[r][c]
                    /\ ClaimAttrs(tbl, tbl.rows[k]) = ClaimAttrs(registry, registry.rows[e])

\* the registry entries whose score against the name q is highest, if that
\* score reaches the cutoff
ClaimBest(q) ==
    LET score(e) == token_sort_ratio(
                        q, ClaimCell(registry, registry.rows[e], ClaimRegistryCols[8]).s)
        good == {e \in DOMAIN registry.rows : score(e).n >= cutoff * score(e).d}
    IN {e \in good : \A f \in good : score(f).n * score(e).d <= score(e).n * score(f).d}

\* C10: with fuzzy matching on and available, a row that no registry key
\* equals gets the attributes of the highest-scoring registry entry when that
\* score is at least the cutoff, and keeps all seven attributes null otherwise
C10_FuzzyPass ==
    op = "enrich_with_registry" /\ ClaimEnrichable /\ use_fuzzy /\ HAVE_RAPIDFUZZ =>
        \A r \in DOMAIN prev.rows :
            LET q == _clean_name(ClaimCell(prev, prev.rows[r], ClaimVendorCol))
                exactly == \E e \in DOMAIN registry.rows :
                    ClaimCell(registry, registry.rows[e], ClaimRegistryCols[8]) = Str(q)
            IN ~exactly =>
                /\ IsTable(tbl)
                /\ \E k \in DOMAIN tbl.rows :
                     /\ \A c \in DOMAIN prev.cols :
                           ClaimCell(tbl, tbl.rows[k], prev.cols[c]) = prev.rows[r][c]
                     /\ IF ClaimBest(q) = {}
                        THEN \A a \in 1..7 : ClaimNull(ClaimAttrs(tbl, tbl.rows[k])[a])
                        ELSE \E e \in ClaimBest(q) :
                                ClaimAttrs(tbl, tbl.rows[k])
                                    = ClaimAttrs(registry, registry.rows[e])

\* the registries that list the entities of the loaded registry in any order
ClaimReorderings ==
    LET n == Len(registry.rows)
        perms == {p \in [1..n -> 1..n] : \A i, j \in 1..n : p[i] = p[j] => i = j}
    IN {[registry EXCEPT !.rows = [i \in 1..n |-> registry.rows[p[i]]]] : p \in perms}

\* C11: the entry chosen for an unresolved row does not depend on the order of
\* the registry: enriching the same dataset against the same entities listed
\* in another order gives every row left unresolved by the exact pass the same
\* match
C11_TieBreakIgnoresOrder ==
    op = "enrich_with_registry" /\ ClaimEnrichable /\ use_fuzzy /\ HAVE_RAPIDFUZZ
    /\ IsTable(tbl) =>
        \A other \in ClaimReorderings :
            LET again == enrich_with_registry(prev, other, use_fuzzy, cutoff)
            IN \A r \in DOMAIN prev.rows :
                (\A e \in DOMAIN registry.rows :
                    ClaimCell(registry, registry.rows[e], ClaimRegistryCols[8])
                        # Str(_clean_name(ClaimCell(prev, prev.rows[r], ClaimVendorCol))))
                => IsTable(again) /\ again.rows[r] = tbl.rows[r]

ClaimScoreCol == <<"m", "a", "t", "c", "h", "_", "s", "c", "o", "r", "e">>
ClaimMethodCol == <<"m", "a", "t", "c", "h", "_", "m", "e", "t", "h", "o", "d">>
\* a score between 0 and 100
ClaimScoreInRange(v) ==
    \/ v.t = "num" /\ v.m >= 0 /\ (v.e = 0 => v.m <= 100)
                   /\ (v.e = 1 => v.m <= 1000) /\ v.e <= 1
    \/ v.t = "ratio" /\ v.n >= 0 /\ v.n <= 100 * v.d

\* C12: every row of an enriched dataset carries a match_score between 0 and
\* 100 and a match_method, which is "unmatched" exactly when all seven registry
\* attributes are null, "exact" when the row's key equals the key of a registry
\* entity, and "fuzzy" otherwise
C12_MatchResult ==
    op = "enrich_with_registry" /\ ClaimEnrichable /\ IsTable(tbl) =>
        /\ ClaimScoreCol \in ClaimColSet(tbl)
        /\ ClaimMethodCol \in ClaimColSet(tbl)
        /\ \A k \in DOMAIN tbl.rows :
            LET row == tbl.rows[k]
                method == ClaimCell(tbl, row, ClaimMethodCol)
                key == Str(_clean_name(ClaimCell(tbl, row, ClaimVendorCol)))
                unmatched == \A a \in 1..7 : ClaimNull(ClaimAttrs(tbl, row)[a])
                exact == \E e \in DOMAIN registry.rows :
                    ClaimCell(registry, registry.rows[e], ClaimRegistryCols[8]) = key
            IN /\ ClaimScoreInRange(ClaimCell(tbl, row, ClaimScoreCol))
               /\ method = Str(IF unmatched THEN <<"u", "n", "m", "a", "t", "c", "h", "e", "d">>
                               ELSE IF exact THEN <<"e", "x", "a", "c", "t">> ELSE <<"f", "u", "z", "z", "y">>)

\* C17: enriching a non-empty dataset against a non-empty registry, even one in
\* which entities share a key, ends without error and gives one output row per
\* input row, in input order, carrying the input row's cells
C17_RowsPreserved ==
    op = "enrich_with_registry" /\ ClaimEnrichable =>
        /\ IsTable(tbl)
        /\ Len(tbl.rows) = Len(prev.rows)
        /\ \A r \in DOMAIN prev.rows : \A c \in DOMAIN prev.cols :
              ClaimCell(tbl, tbl.rows[r], prev.cols[c]) = prev.rows[r][c]

---------------------------------------------------------------------------
(* Claims about the filters and aggregates *)

ClaimMonthCol == <<"r", "e", "p", "o", "r", "t", "_", "m", "o", "n", "t", "h">>
ClaimYearCol == <<"r", "e", "p", "o", "r", "t", "_", "y", "e", "a", "r">>
ClaimAmountCol == <<"a", "m", "o", "u", "n", "t">>
\* a selection that was made: neither null nor empty
ClaimGiven(list) == list.t = "list" /\ list.items # <<>>
\* the name in lower case, without the blanks around it
ClaimFold(s) ==
    LET lower(c) == IF c \in UpperSet
                    THEN LowerSeq[CHOOSE i \in 1..26 : UpperSeq[i] = c] ELSE c
        inner == {i \in DOMAIN s : s[i] # " "}
    IN IF inner = {} THEN <<>>
       ELSE [i \in 1..(1 + (CHOOSE hi \in inner : \A j \in inner : j <= hi)
                         - (CHOOSE lo \in inner : \A j \in inner : lo <= j)) |->
                lower(s[i - 1 + (CHOOSE lo \in inner : \A j \in inner : lo <= j)])]
\* the month name with a capital first letter and the rest in lower case
ClaimTitle(s) ==
    [i \in DOMAIN s |->
        IF i = 1
        THEN (IF s[i] \in LowerSet
              THEN UpperSeq[CHOOSE k \in 1..26 : LowerSeq[k] = s[i]] ELSE s[i])
        ELSE (IF s[i] \in UpperSet
              THEN LowerSeq[CHOOSE k \in 1..26 : UpperSeq[k] = s[i]] ELSE s[i])]
\* row satisfies every selection of the call
ClaimSelected(t, row) ==
    /\ ClaimGiven(arg.vendors) =>
          LET v == ClaimCell(t, row, ClaimVendorCol)
          IN v.t = "str" /\ \E i \in DOMAIN arg.vendors.items :
                ClaimFold(v.s) = ClaimFold(arg.vendors.items[i])
    /\ ClaimGiven(arg.months) =>
          LET m == ClaimCell(t, row, ClaimMonthCol)
          IN m.t = "str" /\ \E i \in DOMAIN arg.months.items : m.s = ClaimTitle(arg.months.items[i])
    /\ ClaimGiven(arg.years) =>
          LET y == ClaimCell(t, row, ClaimYearCol)
          IN y.t = "num" /\ y.e = 0 /\ \E i \in DOMAIN arg.years.items : y.m = arg.years.items[i]

\* C13: filter_data returns exactly the rows that satisfy every selection
\* made, in input order and indexed 0, 1, 2, ...; a null or empty selection
\* constrains nothing, so without selections the output is the input, and the
\* output never has more rows than the input
C13_FilterData ==
    op = "filter_data" =>
        LET hits == {r \in DOMAIN prev.rows : ClaimSelected(prev, prev.rows[r])}
        IN /\ tbl.cols = prev.cols
           /\ Len(tbl.rows) = Cardinality(hits)
           /\ Len(tbl.rows) <= Len(prev.rows)
           /\ tbl.index = [i \in 1..Len(tbl.rows) |-> i - 1]
           /\ \A i \in DOMAIN tbl.rows :
                 \E r \in hits :
                    /\ tbl.rows[i] = prev.rows[r]
                    /\ Cardinality({q \in hits : q < r}) = i - 1
           /\ (~ClaimGiven(arg.vendors) /\ ~ClaimGiven(arg.months)
               /\ ~ClaimGiven(arg.years)) => tbl.rows = prev.rows

\* of three rows, the one named "ACME CLINIC" in December 2024 alone passed the
\* vendor " ACME clinic ", the month "december" or "january" and the year 2024
C13_Witness ==
    /\ op = "filter_data"
    /\ arg.vendors.t = "list" /\ arg.vendors.items = <<<<" ", "A", "C", "M", "E", " ", "c", "l", "i", "n", "i", "c", " ">>>>
    /\ ClaimGiven(arg.months) /\ Len(arg.months.items) = 2 /\ ClaimGiven(arg.years)
    /\ Len(prev.rows) = 3 /\ Len(tbl.rows) = 1
    /\ tbl.rows[1] = prev.rows[3]
    /\ tbl.rows[1][1] = Str(<<"A", "C", "M", "E", " ", "C", "L", "I", "N", "I", "C">>)
    /\ prev.rows[1][1] = Str(<<"B", "e", "t", "a", " ", "H", "o", "s", "p", "i", "t", "a", "l">>)

\* an amount in tenths (the amounts of the datasets have one decimal at most)
ClaimTenths(v) == IF v.t # "num" THEN 0 ELSE IF v.e = 0 THEN 10 * v.m ELSE v.m
RECURSIVE ClaimSumOver(_, _)
\* the non-null amounts of the rows numbered in S, added up, in tenths
ClaimSumOver(t, S) ==
    IF S = {} THEN 0
    ELSE LET r == CHOOSE x \in S : TRUE
         IN ClaimTenths(ClaimCell(t, t.rows[r], ClaimAmountCol))
            + ClaimSumOver(t, S \ {r})
\* the vendor names of a dataset
ClaimVendors(t) == {ClaimCell(t, t.rows[r], ClaimVendorCol) : r \in DOMAIN t.rows}
\* the rows of a vendor
ClaimRowsOf(t, v) == {r \in DOMAIN t.rows : ClaimCell(t, t.rows[r], ClaimVendorCol) = v}

\* C14: totals returns the sum of the non-null amounts, the number of
\* distinct vendor names and the number of rows; on an empty dataset the
\* three are 0.0, 0 and 0
C14_Totals ==
    op = "totals" =>
        /\ ret.total_amount.t = "num"
        /\ ClaimTenths(ret.total_amount) = ClaimSumOver(tbl, DOMAIN tbl.rows)
        /\ ret.total_facilities = Cardinality(ClaimVendors(tbl))
        /\ ret.rows = Len(tbl.rows)
        /\ tbl.rows = <<>> =>
              /\ ret.total_amount = [t |-> "num", m |-> 0, e |-> 0]
              /\ ret.total_facilities = 0
              /\ ret.rows = 0

\* three rows of two vendors, one amount missing: 1250.5 + 2000 = 3250.5
C14_Witness ==
    /\ op = "totals"
    /\ Len(tbl.rows) = 3
    /\ \E r \in DOMAIN tbl.rows : ClaimNull(ClaimCell(tbl, tbl.rows[r], ClaimAmountCol))
    /\ ret.total_amount = [t |-> "num", m |-> 32505, e |-> 1]
    /\ ret.total_facilities = 2
    /\ ret.rows = 3

\* the totals of an empty dataset
C14_WitnessEmpty ==
    /\ op = "totals" /\ tbl.rows = <<>>
    /\ ret.total_amount = [t |-> "num", m |-> 0, e |-> 0]

\* C15: top_vendors(dataset, k) returns at most k rows, one per vendor name,
\* each with the sum of the vendor's non-null amounts (a vendor whose amounts
\* are all null is kept, with 0), in descending order of the sums; the rows
\* returned are those of the k largest sums
C15_TopVendors ==
    op = "top_vendors" =>
        LET total(v) == ClaimSumOver(prev, ClaimRowsOf(prev, v))
            name(i) == ClaimCell(tbl, tbl.rows[i], ClaimVendorCol)
            amount(i) == ClaimCell(tbl, tbl.rows[i], ClaimAmountCol)
            returned == {name(i) : i \in DOMAIN tbl.rows}
            wanted == IF arg.k < Cardinality(ClaimVendors(prev))
                      THEN arg.k ELSE Cardinality(ClaimVendors(prev))
        IN /\ Len(tbl.rows) <= arg.k
           /\ Len(tbl.rows) = wanted
           /\ \A i, j \in DOMAIN tbl.rows : i # j => name(i) # name(j)
           /\ returned \subseteq ClaimVendors(prev)
           /\ \A i \in DOMAIN tbl.rows :
                 amount(i).t = "num" /\ ClaimTenths(amount(i)) = total(name(i))
           /\ \A i, j \in DOMAIN tbl.rows :
                 i < j => ClaimTenths(amount(i)) >= ClaimTenths(amount(j))
           /\ \A v \in ClaimVendors(prev) \ returned :
                 \A w \in returned : total(v) <= total(w)

\* of three vendors the two largest are returned, 1250.5 before 100, and the
\* vendor whose only amount is missing, of sum 0, is cut off
C15_Witness ==
    /\ op = "top_vendors" /\ arg.k = 2
    /\ Cardinality(ClaimVendors(prev)) = 3
    /\ Len(tbl.rows) = 2
    /\ tbl.rows[1] = <<Str(<<"A", "c", "m", "e", " ", "C", "l", "i", "n", "i", "c">>), [t |-> "num", m |-> 12505, e |-> 1]>>
    /\ tbl.rows[2] = <<Str(<<"A", "C", "M", "E", " ", "C", "L", "I", "N", "I", "C">>), [t |-> "num", m |-> 100, e |-> 0]>>

\* a vendor whose only amount is missing is returned with the sum 0, after
\* the vendor whose two amounts add up to 1550.5
C15_WitnessNull ==
    /\ op = "top_vendors" /\ arg.k = 2
    /\ Len(prev.rows) = 3
    /\ tbl.rows = << <<Str(<<"A", "c", "m", "e", " ", "C", "l", "i", "n", "i", "c">>), [t |-> "num", m |-> 15505, e |-> 1]>>,
                     <<Str(<<"B", "e", "t", "a", " ", "H", "o", "s", "p", "i", "t", "a", "l">>), [t |-> "num", m |-> 0, e |-> 0]>> >>

---------------------------------------------------------------------------
(* Claims about the dashboard *)

\* the rows of the stored dataset that have a year and a month
ClaimDated ==
    {r \in DOMAIN filtered_json.data :
        /\ filtered_json.data[r][4].t = "num"
        /\ filtered_json.data[r][3].t = "str"}
\* the number of a month in the calendar
ClaimMonthNo(name) ==
    CHOOSE k \in 1..12 :
        <<<<"J", "a", "n", "u", "a", "r", "y">>, <<"F", "e", "b", "r", "u", "a", "r", "y">>, <<"M", "a", "r", "c", "h">>, <<"A", "p", "r", "i", "l">>, <<"M", "a", "y">>, <<"J", "u", "n", "e">>,
          <<"J", "u", "l", "y">>, <<"A", "u", "g", "u", "s", "t">>, <<"S", "e", "p", "t", "e", "m", "b", "e", "r">>, <<"O", "c", "t", "o", "b", "e", "r">>, <<"N", "o", "v", "e", "m", "b", "e", "r">>,
          <<"D", "e", "c", "e", "m", "b", "e", "r">>>>[k] = name
\* the (year, month) pair of a stored row
ClaimPair(r) ==
    <<filtered_json.data[r][4].m, ClaimMonthNo(filtered_json.data[r][3].s)>>
RECURSIVE ClaimStoredSum(_)
\* the amounts of stored rows added up, in tenths
ClaimStoredSum(S) ==
    IF S = {} THEN 0
    ELSE LET r == CHOOSE x \in S : TRUE
         IN ClaimTenths(filtered_json.data[r][2]) + ClaimStoredSum(S \ {r})

\* C16: the by-month aggregation of update_views has one bucket for each
\* (report_year, report_month) pair of the rows that have both, leaves out
\* only the rows missing either, sums the amounts of a bucket's rows and
\* orders the buckets by year and calendar month
C16_MonthBuckets ==
    (op = "update_views" /\ filtered_json.data # <<>>) =>
        LET pairs == {ClaimPair(r) : r \in ClaimDated}
            bucket(i) == <<views.by_month[i][1].y, views.by_month[i][1].mo>>
        IN /\ Len(views.by_month) = Cardinality(pairs)
           /\ {bucket(i) : i \in DOMAIN views.by_month} = pairs
           /\ \A i \in DOMAIN views.by_month :
                 ClaimTenths(views.by_month[i][2])
                    = ClaimStoredSum({r \in ClaimDated : ClaimPair(r) = bucket(i)})
           /\ \A i, j \in DOMAIN views.by_month :
                 i < j => \/ bucket(i)[1] < bucket(j)[1]
                          \/ bucket(i)[1] = bucket(j)[1] /\ bucket(i)[2] < bucket(j)[2]

\* where every stored row has a year, the buckets are as claimed
C16_AllYearsKnown ==
    (\A r \in DOMAIN filtered_json.data : filtered_json.data[r][4].t = "num")
        => C16_MonthBuckets

\* December 2024 comes before January 2025 in the by-month view
C16_Chronological ==
    /\ op = "update_views"
    /\ Len(views.by_month) = 2
    /\ views.by_month[1][1] = [t |-> "period", y |-> 2024, mo |-> 12]
    /\ views.by_month[2][1] = [t |-> "period", y |-> 2025, mo |-> 1]

\* the rows of RAW that satisfy the selections of the last Apply, in order
ClaimExpected ==
    SelectSeq(RAW.rows, LAMBDA row : ClaimSelected(RAW, row))
\* a stored cell holds the value of a cell of RAW
ClaimStored(cell, v) == IF ClaimNull(v) THEN cell.t = "null" ELSE cell = v
\* the stored dataset is filter_data(RAW, the last selections)
ClaimStoreIsFiltered ==
    "fn" \in DOMAIN arg =>
        /\ arg.fn = "apply_filters"
        /\ filtered_json.columns = RAW.cols
        /\ Len(filtered_json.data) = Len(ClaimExpected)
        /\ \A r \in DOMAIN filtered_json.data :
              \A j \in DOMAIN RAW.cols :
                 ClaimStored(filtered_json.data[r][j], ClaimExpected[r][j])
        /\ (~ClaimGiven(arg.vendors) /\ ~ClaimGiven(arg.months)
            /\ ~ClaimGiven(arg.years)) => Len(filtered_json.data) = Len(RAW.rows)

\* C18: after any sequence of Apply clicks the stored dataset is
\* filter_data(RAW, the most recent selections); RAW is never modified, and
\* an Apply with every selection cleared stores every row of RAW
C18_ApplyOnRaw == [](ClaimStoreIsFiltered) /\ [][RAW' = RAW]_vars

\* the views still show the one row of an earlier selection when an Apply
\* with every selection cleared has stored both rows of RAW again
C18_Witness ==
    /\ op = "apply_filters"
    /\ views # NoneV /\ views.total_rows = <<"1">>
    /\ ~ClaimGiven(arg.vendors) /\ ~ClaimGiven(arg.months) /\ ~ClaimGiven(arg.years)
    /\ Len(RAW.rows) = 2
    /\ Len(filtered_json.data) = 2

===========================================================================
